---- MODULE Spec2Model ----
(***************************************************************************)
(* A model of export-cursor.py: the reconstruction of threads and bubbles  *)
(* from the key-value stores, the transcript renderer and the incremental  *)
(* export controller.                                                      *)
(*                                                                         *)
(* Text is a sequence of one-character strings (a few fixed templates are  *)
(* kept as one multi-character token).  A JSON object is a function from   *)
(* field names to values; an absent field is a name outside its DOMAIN.    *)
(* Times are epoch milliseconds; local time is taken to be UTC.            *)
(***************************************************************************)
EXTENDS Integers, Sequences, FiniteSets, TLC

\* ------------------------------------------------------------------ bounds
\* The clock takes the values 60000, 120000, ..., MaxTick * 60000.
MaxTick == 3
\* Invocations of export_conversations in one behaviour.
MaxRuns == 2
\* Workspace stores given to one call of get_all_composer_threads.
MaxWorkspaces == 2
\* Bubbles of the thread given to one call of format_conversation_markdown.
MaxBubbles == 4
\* Changes the owner of the store makes to it in one behaviour.
MaxEdits == 1
\* Failed writes and kills of the process in one behaviour.
MaxFaults == 1

\* -------------------------------------------------------------------- text
Get(d, k, default) == IF k \in DOMAIN d THEN d[k] ELSE default

Range(s) == {s[i] : i \in DOMAIN s}

\* s[:n]
Take(s, n) == SubSeq(s, 1, IF n < Len(s) THEN n ELSE Len(s))

\* s[-n:]
LastN(s, n) == SubSeq(s, IF Len(s) > n THEN Len(s) - n + 1 ELSE 1, Len(s))

IsSpace(c) == c \in {" ", "\n", "\t"}

RECURSIVE LStrip(_)
LStrip(s) == IF s = <<>> THEN s
             ELSE IF IsSpace(Head(s)) THEN LStrip(Tail(s)) ELSE s

RECURSIVE RStrip(_)
RStrip(s) == IF s = <<>> THEN s
             ELSE IF IsSpace(s[Len(s)]) THEN RStrip(SubSeq(s, 1, Len(s) - 1)) ELSE s

\* str.strip()
Strip(s) == RStrip(LStrip(s))

\* str.split('\n'): never empty, one more element than there are newlines
RECURSIVE SplitLines(_)
SplitLines(s) ==
    IF \A i \in DOMAIN s : s[i] # "\n" THEN <<s>>
    ELSE LET k == CHOOSE i \in DOMAIN s : s[i] = "\n" /\ \A j \in 1..(i - 1) : s[j] # "\n"
         IN  <<SubSeq(s, 1, k - 1)>> \o SplitLines(SubSeq(s, k + 1, Len(s)))

\* sep.join(parts)
RECURSIVE Join(_, _)
Join(parts, sep) ==
    IF parts = <<>> THEN <<>>
    ELSE IF Len(parts) = 1 THEN parts[1]
    ELSE parts[1] \o sep \o Join(Tail(parts), sep)

Pad2(n) == <<ToString(n \div 10), ToString(n % 10)>>

Pad4(n) == <<ToString(n \div 1000), ToString((n \div 100) % 10),
             ToString((n \div 10) % 10), ToString(n % 10)>>

\* The calendar date (year, month, day) of a day number counted from 1970-01-01.
CivilFromDays(days) ==
    LET z   == days + 719468
        era == z \div 146097
        doe == z - era * 146097
        yoe == (doe - doe \div 1460 + doe \div 36524 - doe \div 146096) \div 365
        doy == doe - (365 * yoe + yoe \div 4 - yoe \div 100)
        mp  == (5 * doy + 2) \div 153
        d   == doy - (153 * mp + 2) \div 5 + 1
        m   == IF mp < 10 THEN mp + 3 ELSE mp - 9
        y   == yoe + era * 400 + (IF m <= 2 THEN 1 ELSE 0)
    IN  [y |-> y, m |-> m, d |-> d]

\* datetime.fromtimestamp(ms / 1000).strftime('%Y-%m-%d %H:%M:%S')
FormatDateTime(ms) ==
    LET secs == ms \div 1000
        c    == CivilFromDays(secs \div 86400)
    IN  Pad4(c.y) \o <<"-">> \o Pad2(c.m) \o <<"-">> \o Pad2(c.d) \o <<" ">>
        \o Pad2((secs \div 3600) % 24) \o <<":">> \o Pad2((secs \div 60) % 60)
        \o <<":">> \o Pad2(secs % 60)

\* format_timestamp_filename: '%Y-%m-%dT%H%M'
format_timestamp_filename(ms) ==
    LET secs == ms \div 1000
        c    == CivilFromDays(secs \div 86400)
    IN  Pad4(c.y) \o <<"-">> \o Pad2(c.m) \o <<"-">> \o Pad2(c.d) \o <<"T">>
        \o Pad2((secs \div 3600) % 24) \o Pad2((secs \div 60) % 60)

\* The replacements table of slugify_title; '"' is deleted.
SlugChar(c) ==
    IF c \in {"/", "\\", ":", "*", "?", "<", ">", "|", " "} THEN <<"-">>
    ELSE IF c = "\"" THEN <<>>
    ELSE <<c>>

RECURSIVE SlugReplace(_)
SlugReplace(s) == IF s = <<>> THEN <<>> ELSE SlugChar(Head(s)) \o SlugReplace(Tail(s))

\* re.sub(r'-+', '-', s)
RECURSIVE CollapseDashes(_)
CollapseDashes(s) ==
    IF Len(s) < 2 THEN s
    ELSE IF s[1] = "-" /\ s[2] = "-" THEN CollapseDashes(Tail(s))
    ELSE <<s[1]>> \o CollapseDashes(Tail(s))

RECURSIVE StripDashes(_)
StripDashes(s) ==
    IF s = <<>> THEN s
    ELSE IF Head(s) = "-" THEN StripDashes(Tail(s))
    ELSE IF s[Len(s)] = "-" THEN StripDashes(SubSeq(s, 1, Len(s) - 1))
    ELSE s

slugify_title(title) ==
    LET cut  == Take(SplitLines(title)[1], 50)
        slug == StripDashes(CollapseDashes(SlugReplace(cut)))
    IN  IF slug = <<>> THEN <<"u", "n", "t", "i", "t", "l", "e", "d">> ELSE slug

\* generate_filename, without the '.md' suffix: the stem of the path
generate_filename(thread_data, cid, first_message) ==
    LET created_at == Get(thread_data, "createdAt", 0)
        name       == Get(thread_data, "name", <<>>)
        title      == IF name # <<>> THEN name ELSE first_message
    IN  format_timestamp_filename(created_at) \o <<"-">> \o slugify_title(title)
        \o <<"-">> \o Take(cid, 8)

\* ----------------------------------------------------------- store reading
(***************************************************************************)
(* A store instance is [exists, readable, kv, item]: whether its file is   *)
(* there, whether it can be opened and queried, kv the composerData rows   *)
(* of cursorDiskKV in scan order, each                                     *)
(* [cid, blob], and item the ItemTable row 'composer.composerData'.  A     *)
(* blob is [t, v]: t = "null" (SQL NULL or no row), "bad" (text json.loads *)
(* rejects), "obj" (a JSON object, v) or "arr" (JSON that is no object: an *)
(* array, a number, the literal null).                                     *)
(***************************************************************************)
NoObj == [x \in {} |-> 0]

\* What json.loads gives for JSON that is no object: a value without .get
NonObject == [notAnObject |-> TRUE]

\* The value json.loads gives for a blob that parses.
Loaded(blob) == IF blob.t = "obj" THEN blob.v ELSE NonObject

Obj(v) == [t |-> "obj", v |-> v]

\* The rows of get_composer_threads' first query that parse, as (cid, data).
RECURSIVE KvThreads(_)
KvThreads(kv) ==
    IF kv = <<>> THEN <<>>
    ELSE IF Head(kv).blob.t \in {"obj", "arr"}
         THEN <<<<Head(kv).cid, Loaded(Head(kv).blob)>>>> \o KvThreads(Tail(kv))
         ELSE KvThreads(Tail(kv))

\* The entries of the allComposers array that carry a composerId.
RECURSIVE ComposerThreads(_)
ComposerThreads(all) ==
    IF all = <<>> THEN <<>>
    ELSE IF "composerId" \in DOMAIN Head(all)
         THEN <<<<Head(all).composerId, Head(all)>>>> \o ComposerThreads(Tail(all))
         ELSE ComposerThreads(Tail(all))

get_composer_threads(db) ==
    KvThreads(db.kv)
    \o (IF db.item.t = "obj" /\ "allComposers" \in DOMAIN db.item.v
        THEN ComposerThreads(db.item.v.allComposers)
        ELSE <<>>)

\* all_threads is a dict in insertion order: a sequence of (cid, data).
HasCid(all, cid) == \E i \in DOMAIN all : all[i][1] = cid

IndexOfCid(all, cid) == CHOOSE i \in DOMAIN all : all[i][1] = cid

Lookup(all, cid) == all[IndexOfCid(all, cid)][2]

\* all_threads[cid] = data
Put(all, cid, data) ==
    IF HasCid(all, cid) THEN [all EXCEPT ![IndexOfCid(all, cid)] = <<cid, data>>]
    ELSE Append(all, <<cid, data>>)

\* The loop over the global database's threads: every record is stored.
RECURSIVE MergeGlobal(_, _)
MergeGlobal(all, threads) ==
    IF threads = <<>> THEN all
    ELSE MergeGlobal(Put(all, Head(threads)[1], Head(threads)[2]), Tail(threads))

\* The test of the workspace loop: keep the most recently updated version.
WorkspaceReplaces(all, cid, data) ==
    \/ ~HasCid(all, cid)
    \/ Get(data, "lastUpdatedAt", 0) > Get(Lookup(all, cid), "lastUpdatedAt", 0)

\* The test raises: the thread is known and one of the two values has no .get
WorkspaceTestRaises(all, cid, data) ==
    HasCid(all, cid) /\ (data = NonObject \/ Lookup(all, cid) = NonObject)

\* The loop over one workspace database, inside try / except Exception: pass.
\* When the test raises, the rest of the database's threads is left out.
RECURSIVE MergeWorkspace(_, _)
MergeWorkspace(all, threads) ==
    IF threads = <<>> THEN all
    ELSE LET cid  == Head(threads)[1]
             data == Head(threads)[2]
         IN  IF WorkspaceTestRaises(all, cid, data) THEN all
             ELSE MergeWorkspace(IF WorkspaceReplaces(all, cid, data)
                                 THEN Put(all, cid, data) ELSE all,
                                 Tail(threads))

RECURSIVE MergeWorkspaces(_, _)
MergeWorkspaces(all, dbs) ==
    IF dbs = <<>> THEN all
    ELSE MergeWorkspaces(IF Head(dbs).readable
                         THEN MergeWorkspace(all, get_composer_threads(Head(dbs)))
                         ELSE all,
                         Tail(dbs))

\* An insertion that puts a record before the records of equal createdAt.
RECURSIVE InsertBeforeEqual(_, _)
InsertBeforeEqual(sorted, x) ==
    IF sorted = <<>> THEN <<x>>
    ELSE IF Get(Head(sorted)[2], "createdAt", 0) > Get(x[2], "createdAt", 0)
         THEN <<Head(sorted)>> \o InsertBeforeEqual(Tail(sorted), x)
         ELSE <<x>> \o sorted

\* sorted(..., key=createdAt, reverse=True): stable, equal keys keep their order
RECURSIVE InsertByCreatedDesc(_, _)
InsertByCreatedDesc(sorted, x) ==
    IF sorted = <<>> THEN <<x>>
    ELSE IF Get(Head(sorted)[2], "createdAt", 0) >= Get(x[2], "createdAt", 0)
         THEN <<Head(sorted)>> \o InsertByCreatedDesc(Tail(sorted), x)
         ELSE <<x>> \o sorted

RECURSIVE SortByCreatedDesc(_, _)
SortByCreatedDesc(acc, rest) ==
    IF rest = <<>> THEN acc
    ELSE SortByCreatedDesc(InsertByCreatedDesc(acc, Head(rest)), Tail(rest))

\* The dict all_threads before the final sort.
MergedThreads(global, workspaces) ==
    MergeWorkspaces(IF global.exists /\ global.readable
                    THEN MergeGlobal(<<>>, get_composer_threads(global))
                    ELSE <<>>,
                    workspaces)

get_all_composer_threads(global, workspaces) ==
    SortByCreatedDesc(<<>>, MergedThreads(global, workspaces))

\* The key of the final sort, x[1].get, raises on a value that is no object.
MergeRaises(global, workspaces) ==
    \E k \in DOMAIN MergedThreads(global, workspaces) :
        MergedThreads(global, workspaces)[k][2] = NonObject

(***************************************************************************)
(* A bubble row is [rest, blob]: rest is the key after 'bubbleId:', that   *)
(* is cid ':' bubble id, and blob the value.                               *)
(***************************************************************************)
BubbleCreatedAt(row) == IF row.blob.t = "obj" THEN Get(row.blob.v, "createdAt", 0) ELSE 0

\* ORDER BY COALESCE(json_extract(value, '$.createdAt'), 0) ASC, ties in scan order
RECURSIVE InsertByCreatedAsc(_, _)
InsertByCreatedAsc(sorted, x) ==
    IF sorted = <<>> THEN <<x>>
    ELSE IF BubbleCreatedAt(Head(sorted)) <= BubbleCreatedAt(x)
         THEN <<Head(sorted)>> \o InsertByCreatedAsc(Tail(sorted), x)
         ELSE <<x>> \o sorted

RECURSIVE SortByCreatedAsc(_, _)
SortByCreatedAsc(acc, rest) ==
    IF rest = <<>> THEN acc
    ELSE SortByCreatedAsc(InsertByCreatedAsc(acc, Head(rest)), Tail(rest))

\* rest.find(':'): 0 stands for -1, no colon
FindColon(rest) ==
    IF \A i \in DOMAIN rest : rest[i] # ":" THEN 0
    ELSE CHOOSE i \in DOMAIN rest : rest[i] = ":" /\ \A j \in 1..(i - 1) : rest[j] # ":"

RowCid(row) == SubSeq(row.rest, 1, FindColon(row.rest) - 1)

\* The rows get_bubbles_batch appends to result, in the order of the scan.
BatchRows(rows, cid_set) ==
    SelectSeq(SortByCreatedAsc(<<>>, rows),
              LAMBDA r : /\ FindColon(r.rest) # 0
                         /\ RowCid(r) \in cid_set
                         /\ r.blob.t \in {"obj", "arr"})

get_bubbles_batch(rows, cid_set) ==
    LET kept == BatchRows(rows, cid_set)
    IN  [c \in {RowCid(kept[i]) : i \in DOMAIN kept} |->
            LET mine == SelectSeq(kept, LAMBDA r : RowCid(r) = c)
            IN  [i \in DOMAIN mine |-> Loaded(mine[i].blob)]]

\* json_extract in the ORDER BY of the query raises on a value that is not JSON,
\* whatever thread the row belongs to.
BatchRaises(rows) == \E k \in DOMAIN rows : rows[k].blob.t = "bad"


\* ---------------------------------------------------------- bubble fields
(***************************************************************************)
(* A field of a bubble holds a text or a dict.  Python tells the two apart *)
(* at run time; the bubble names in dictFields the fields whose value is a *)
(* dict, and the dict is the sequence of its (key, value) pairs, in the    *)
(* order of the JSON text, keys and values being texts.                    *)
(***************************************************************************)
\* json.dumps(d, ensure_ascii=False, indent=2) of a dict that is not empty
PrettyJson(d) ==
    <<"{", "\n">>
    \o Join([k \in DOMAIN d |-> <<" ", " ", "\"">> \o d[k][1] \o <<"\"", ":", " ", "\"">>
                                 \o d[k][2] \o <<"\"">>],
            <<",", "\n">>)
    \o <<"\n", "}">>

\* The field extract_message_content takes its value from: the first of the four
\* whose value is truthy; "message" when none is.
ContentField(bubble) ==
    IF Get(bubble, "content", <<>>) # <<>> THEN "content"
    ELSE IF Get(bubble, "text", <<>>) # <<>> THEN "text"
    ELSE IF Get(bubble, "richText", <<>>) # <<>> THEN "richText"
    ELSE "message"

\* A content that looks at text before content.
ContentTextFirst(bubble) ==
    LET field == IF Get(bubble, "text", <<>>) # <<>> THEN "text" ELSE ContentField(bubble)
        content == Get(bubble, field, <<>>)
    IN  IF content # <<>> /\ field \in Get(bubble, "dictFields", {})
        THEN PrettyJson(content)
        ELSE Strip(content)

\* extract_message_content: the first non-empty of the four fields, serialized
\* when it is a dict, trimmed otherwise
extract_message_content(bubble) ==
    LET content == Get(bubble, ContentField(bubble), <<>>)
    IN  IF content # <<>> /\ ContentField(bubble) \in Get(bubble, "dictFields", {})
        THEN PrettyJson(content)
        ELSE Strip(content)

\* extract_thinking_content; thinking is an object [text] when present
extract_thinking_content(bubble) ==
    Strip(Get(Get(bubble, "thinking", NoObj), "text", <<>>))

Lower(c) ==
    CASE c = "U" -> "u" [] c = "S" -> "s" [] c = "E" -> "e" [] c = "R" -> "r"
      [] c = "A" -> "a" [] c = "I" -> "i" [] c = "B" -> "b" [] c = "O" -> "o"
      [] c = "T" -> "t" [] c = "H" -> "h" [] c = "M" -> "m" [] c = "N" -> "n"
      [] c = "C" -> "c" [] c = "L" -> "l" [] c = "G" -> "g" [] c = "D" -> "d"
      [] OTHER -> c

ToLower(s) == [i \in DOMAIN s |-> Lower(s[i])]

UserTokens == {<<"u", "s", "e", "r">>, <<"h", "u", "m", "a", "n">>,
               <<"c", "l", "i", "e", "n", "t">>}

AssistantTokens == {<<"a", "s", "s", "i", "s", "t", "a", "n", "t">>, <<"a", "i">>,
                    <<"a", "g", "e", "n", "t">>, <<"b", "o", "t">>,
                    <<"m", "o", "d", "e", "l">>}

\* A role read from the string fields alone.
RoleFromStrings(bubble) ==
    LET role == IF Get(bubble, "role", <<>>) # <<>> THEN bubble.role
                ELSE IF Get(bubble, "authorRole", <<>>) # <<>> THEN bubble.authorRole
                ELSE Get(bubble, "sender", <<>>)
    IN  IF ToLower(role) \in UserTokens THEN "user"
        ELSE IF ToLower(role) \in AssistantTokens THEN "assistant"
        ELSE "unknown"

\* get_message_role; type is an integer when present
get_message_role(bubble) ==
    LET role == IF Get(bubble, "role", <<>>) # <<>> THEN bubble.role
                ELSE IF Get(bubble, "authorRole", <<>>) # <<>> THEN bubble.authorRole
                ELSE Get(bubble, "sender", <<>>)
    IN  IF Get(bubble, "type", 0) = 1 THEN "user"
        ELSE IF Get(bubble, "type", 0) = 2 THEN "assistant"
        ELSE IF ToLower(role) \in UserTokens THEN "user"
        ELSE IF ToLower(role) \in AssistantTokens THEN "assistant"
        ELSE "unknown"

\* get_message_context: the row messageRequestContext:{cid}:{bubble_id}, {} when
\* it is absent, empty or unparsable.  contexts maps (cid, bubble id) to a blob.
get_message_context(contexts, cid, bubble_id) ==
    IF <<cid, bubble_id>> \in DOMAIN contexts /\ contexts[<<cid, bubble_id>>].t = "obj"
    THEN contexts[<<cid, bubble_id>>].v
    ELSE NoObj

\* --------------------------------------------------------- action formatter
RECURSIVE FlatMap(_, _)
FlatMap(F(_), s) == IF s = <<>> THEN <<>> ELSE F(Head(s)) \o FlatMap(F, Tail(s))

\* format_code_block: one line per line of the code, each with the prefix
format_code_block(code, prefix) ==
    IF Strip(code) = <<>> THEN <<>>
    ELSE LET lines == SplitLines(code)
         IN  [i \in DOMAIN lines |-> <<prefix>> \o lines[i]]

\* len(text.split('\n')) if text else 0
LineCount(text) == IF text = <<>> THEN 0 ELSE Len(SplitLines(text))

(***************************************************************************)
(* A payload (rawArgs, params, result) is a blob [t, v]: "null" stands for *)
(* a missing, None or empty value, "bad" for text json.loads rejects,      *)
(* "obj" for the text of a JSON object (v), "arr" for a non-empty JSON     *)
(* array and "num" for a non-zero JSON number (as text or stored as such), *)
(* and "raw" for an object stored as such, not as text.                    *)
(***************************************************************************)
PayloadKind(tfd, field) == Get(tfd, field, [t |-> "null", v |-> NoObj]).t

ParsePayload(tfd, field) ==
    LET blob == Get(tfd, field, [t |-> "null", v |-> NoObj])
    IN  IF blob.t = "obj" THEN blob.v ELSE NoObj

\* The args of a tool invocation: rawArgs (parsed when it is text, taken as it is
\* otherwise), else params when that leaves nothing.  An array or a number is
\* something: params is not consulted, and no field can be read from it.
ToolArgs(tfd) ==
    LET kind == PayloadKind(tfd, "rawArgs")
        args == IF kind = "raw" THEN tfd.rawArgs.v ELSE ParsePayload(tfd, "rawArgs")
    IN  IF kind \in {"arr", "num"} THEN NoObj
        ELSE IF args = NoObj THEN ParsePayload(tfd, "params") ELSE args

ToolResult(tfd) == ParsePayload(tfd, "result")

\* The tool names the dispatch knows.
RecognizedTools ==
    {<<"codebase_search">>, <<"read_file">>, <<"write">>, <<"search_replace">>,
     <<"run_terminal_cmd">>, <<"grep">>, <<"list_dir">>, <<"glob_file_search">>,
     <<"delete_file">>, <<"edit_notebook">>, <<"todo_write">>, <<"web_search">>}

\* The formatting of a tool invocation raises: json.loads is given a result that
\* is not text (TypeError, which the except clause does not name), a branch calls
\* args.get on an array or a number, the generic branch tests 'key in args' on a
\* number, or a branch calls result_data.get on an array or a number.
ToolRaises(tfd) ==
    LET tool_name == Get(tfd, "name", <<>>)
        akind     == PayloadKind(tfd, "rawArgs")
        rkind     == PayloadKind(tfd, "result")
    IN  \/ rkind = "raw"
        \/ akind \in {"arr", "num"} /\ tool_name \in RecognizedTools
        \/ akind = "num" /\ tool_name \notin RecognizedTools /\ tool_name # <<>>
        \/ /\ rkind \in {"arr", "num"}
           /\ \/ tool_name \in {<<"codebase_search">>, <<"run_terminal_cmd">>}
              \/ /\ tool_name = <<"grep">>
                 /\ Get(ToolArgs(tfd), "output_mode", "content") = "files_with_matches"

CodebaseSearchActions(args, result_data) ==
    LET target_dirs  == Get(args, "target_directories", <<>>)
        code_results == Get(result_data, "codeResults", <<>>)
        ResultLine(r) ==
            IF "codeBlock" \in DOMAIN r
            THEN LET cb   == r.codeBlock
                     path == Get(cb, "relativeWorkspacePath", <<>>)
                     sl   == Get(cb, "startLine", 0)
                     el   == Get(cb, "endLine", 0)
                 IN  IF path = <<>> THEN <<>>
                     ELSE IF sl # 0 /\ el # 0
                          THEN << <<"   File: ">> \o path
                                  \o <<":", ToString(sl), "-", ToString(el)>> >>
                          ELSE << <<"   File: ">> \o path >>
            ELSE <<>>
    IN  << <<"Searched: ">> \o Get(args, "query", <<>>) >>
        \o (IF target_dirs # <<>>
            THEN << <<"   -> Scope: ">> \o Join(target_dirs, <<",", " ">>) >> ELSE <<>>)
        \o (IF code_results # <<>>
            THEN << <<"   -> Found ", ToString(Len(code_results)), " result(s)">> >>
                 \o FlatMap(ResultLine, code_results)
            ELSE <<>>)

ReadFileActions(args) ==
    LET file_path == Get(args, "target_file", <<>>)
        hasOffset == "offset" \in DOMAIN args
        hasLimit  == "limit" \in DOMAIN args
        offset    == Get(args, "offset", 0)
        limit     == Get(args, "limit", 0)
        from      == IF offset # 0 THEN offset ELSE 1
    IN  IF file_path # <<>>
        THEN << <<"Read file: ">> \o file_path
                \o (IF hasOffset \/ hasLimit
                    THEN <<" (lines ", ToString(from)>>
                         \o (IF limit # 0 THEN <<"-", ToString(from + limit - 1)>> ELSE <<>>)
                         \o <<")">>
                    ELSE <<>>) >>
        ELSE << <<"Read file: ", "(args unavailable)">> >>

WriteActions(args) ==
    LET file_path  == Get(args, "file_path", <<>>)
        contents   == Get(args, "contents", <<>>)
        line_count == LineCount(contents)
    IN  IF file_path # <<>>
        THEN << <<"Write file: ">> \o file_path >>
             \o (IF line_count > 0
                 THEN << <<"   -> ", ToString(line_count), " lines written">>,
                         <<"   Contents:">> >>
                      \o format_code_block(contents, "   | ")
                 ELSE <<>>)
        ELSE << <<"Write file: ", "(args unavailable)">> >>

SearchReplaceActions(args) ==
    LET file_path  == Get(args, "file_path", <<>>)
        old_string == Get(args, "old_string", <<>>)
        new_string == Get(args, "new_string", <<>>)
        net_change == LineCount(new_string) - LineCount(old_string)
    IN  (IF file_path # <<>> THEN << <<"Edit file: ">> \o file_path >>
         ELSE << <<"Edit file: ", "(args unavailable)">> >>)
        \o (IF file_path # <<>> /\ (old_string # <<>> \/ new_string # <<>>)
            THEN (IF Strip(old_string) # <<>>
                  THEN << <<"   Old:">> >> \o format_code_block(old_string, "   - ")
                  ELSE <<>>)
                 \o (IF Strip(new_string) # <<>>
                     THEN << <<"   New:">> >> \o format_code_block(new_string, "   + ")
                     ELSE <<>>)
                 \o (IF net_change > 0
                     THEN << <<"   -> Net change: +", ToString(net_change), " line(s)">> >>
                     ELSE IF net_change < 0
                     THEN << <<"   -> Net change: ", ToString(net_change), " line(s)">> >>
                     ELSE <<>>)
            ELSE <<>>)
        \o (IF Get(args, "replace_all", FALSE)
            THEN << <<"   -> Replace all occurrences">> >> ELSE <<>>)

RunTerminalCmdActions(args, result_data) ==
    LET command   == Get(args, "command", <<>>)
        output    == Strip(Get(result_data, "output", <<>>))
        exit_code == Get(result_data, "exitCode", 0)
    IN  (IF command # <<>>
         THEN << <<"Run: ">> \o command
                 \o (IF Get(args, "is_background", FALSE) THEN <<" (background)">> ELSE <<>>) >>
         ELSE << <<"Run: ", "(args unavailable)">> >>)
        \o (IF output # <<>>
            THEN << <<"   Output:">> >> \o format_code_block(output, "   | ") ELSE <<>>)
        \o (IF exit_code # 0 THEN << <<"   -> Exit code: ", ToString(exit_code)>> >> ELSE <<>>)

GrepActions(args, result_data) ==
    LET path      == Get(args, "path", <<>>)
        glob      == Get(args, "glob", <<>>)
        grep_opts == (IF Get(args, "-i", FALSE) THEN << <<"-i">> >> ELSE <<>>)
                     \o (IF glob # <<>> THEN << <<"--glob ">> \o glob >> ELSE <<>>)
        opts_str  == IF grep_opts = <<>> THEN <<>>
                     ELSE <<" (">> \o Join(grep_opts, <<" ">>) \o <<")">>
        mode      == Get(args, "output_mode", "content")
        files     == Get(result_data, "files", <<>>)
    IN  << <<"Grep">> \o opts_str \o <<": '">> \o Get(args, "pattern", <<>>) \o <<"'">>
           \o (IF path # <<>> THEN <<" in ">> \o path ELSE <<>>) >>
        \o (IF mode = "files_with_matches"
            THEN (IF files # <<>>
                  THEN << <<"   -> Found in ", ToString(Len(files)), " file(s)">> >>
                  ELSE <<>>)
            ELSE IF mode = "count" THEN << <<"   -> Output: match counts">> >>
            ELSE <<>>)

ListDirActions(args) ==
    LET ignore_globs == Get(args, "ignore_globs", <<>>)
    IN  << <<"Listed directory: ">> \o Get(args, "target_directory", <<>>) >>
        \o (IF ignore_globs # <<>>
            THEN << <<"   -> Ignoring: ">> \o Join(ignore_globs, <<",", " ">>) >> ELSE <<>>)

GlobFileSearchActions(args) ==
    LET target_dir == Get(args, "target_directory", <<>>)
    IN  << <<"File search: ">> \o Get(args, "glob_pattern", <<>>) >>
        \o (IF target_dir # <<>> THEN << <<"   -> In: ">> \o target_dir >> ELSE <<>>)

DeleteFileActions(args) ==
    << <<"Delete file: ">> \o Get(args, "target_file", <<>>) >>

EditNotebookActions(args) ==
    << <<"Edit notebook: ">> \o Get(args, "target_notebook", <<>>)
       \o (IF Get(args, "is_new_cell", FALSE) THEN <<" (new cell at ">> ELSE <<" (cell ">>)
       \o Get(args, "cell_idx", <<>>) \o <<")">> >>

TodoWriteActions(args) ==
    LET todos == Get(args, "todos", <<>>)
        TodoLine(todo) ==
            << <<"   - [">> \o Get(todo, "status", <<"u", "n", "k", "n", "o", "w", "n">>)
               \o <<"] ">> \o Get(todo, "content", <<>>) >>
    IN  << <<"TODO: ", IF Get(args, "merge", FALSE) THEN "Update" ELSE "Create", " ",
             ToString(Len(todos)), " item(s)">> >>
        \o FlatMap(TodoLine, todos)

WebSearchActions(args, result_data) ==
    LET references == Get(result_data, "references", <<>>)
        RefLines(i) ==
            LET ref   == references[i]
                chunk == Get(ref, "chunk", <<>>)
            IN  << <<"   ", ToString(i), ". ">>
                   \o Get(ref, "title", <<"U", "n", "t", "i", "t", "l", "e", "d">>) >>
                \o (IF chunk # <<>> THEN << <<"      ">> \o chunk >> ELSE <<>>)
    IN  << <<"Web search: ">> \o Get(args, "search_term", <<>>) >>
        \o (IF references # <<>>
            THEN << <<"   -> ", ToString(Len(references)), " result(s)">> >>
                 \o FlatMap(RefLines, [i \in DOMAIN references |-> i])
            ELSE IF Get(result_data, "rejected", FALSE)
            THEN << <<"   -> Search was rejected/cancelled">> >>
            ELSE <<>>)

KeyArgNames == <<"file_path", "target_file", "path", "query", "pattern">>

GenericToolActions(tool_name, args) ==
    LET KeyArg(key) ==
            IF Get(args, key, <<>>) # <<>> THEN << <<key, "=">> \o args[key] >> ELSE <<>>
        key_args == FlatMap(KeyArg, KeyArgNames)
    IN  << <<"Tool: ">> \o tool_name >>
        \o (IF key_args # <<>> THEN << <<"   -> ">> \o Join(key_args, <<",", " ">>) >> ELSE <<>>)

\* The dispatch on toolFormerData.name.
ToolActions(tfd) ==
    LET tool_name   == Get(tfd, "name", <<>>)
        args        == ToolArgs(tfd)
        result_data == ToolResult(tfd)
    IN  CASE tool_name = <<"codebase_search">>  -> CodebaseSearchActions(args, result_data)
          [] tool_name = <<"read_file">>        -> ReadFileActions(args)
          [] tool_name = <<"write">>            -> WriteActions(args)
          [] tool_name = <<"search_replace">>   -> SearchReplaceActions(args)
          [] tool_name = <<"run_terminal_cmd">> -> RunTerminalCmdActions(args, result_data)
          [] tool_name = <<"grep">>             -> GrepActions(args, result_data)
          [] tool_name = <<"list_dir">>         -> ListDirActions(args)
          [] tool_name = <<"glob_file_search">> -> GlobFileSearchActions(args)
          [] tool_name = <<"delete_file">>      -> DeleteFileActions(args)
          [] tool_name = <<"edit_notebook">>    -> EditNotebookActions(args)
          [] tool_name = <<"todo_write">>       -> TodoWriteActions(args)
          [] tool_name = <<"web_search">>       -> WebSearchActions(args, result_data)
          [] OTHER -> IF tool_name # <<>> THEN GenericToolActions(tool_name, args) ELSE <<>>

\* The bubble-level arrays extract_intermediate_actions reports after the tool.
BubbleArrayActions(bubble) ==
    LET web_search == Get(bubble, "aiWebSearchResults", <<>>)
        docs_refs  == Get(bubble, "docsReferences", <<>>)
        web_refs   == Get(bubble, "webReferences", <<>>)
        pieces     == Get(bubble, "contextPieces", <<>>)
        WebLines(i) ==
            LET r       == web_search[i]
                title   == Get(r, "title", <<"U", "n", "t", "i", "t", "l", "e", "d">>)
                url     == Get(r, "url", <<>>)
                snippet == Get(r, "snippet", <<>>)
                chunk   == Get(r, "chunk", <<>>)
            IN  IF title # <<>> \/ url # <<>>
                THEN << <<"   ", ToString(i), ". ">> \o title >>
                     \o (IF url # <<>> THEN << <<"      URL: ">> \o url >> ELSE <<>>)
                     \o (IF snippet # <<>> THEN << <<"      Snippet: ">> \o snippet >> ELSE <<>>)
                     \o (IF chunk # <<>> THEN << <<"      Content: ">> \o chunk >> ELSE <<>>)
                ELSE <<>>
        DocLines(ref) ==
            (IF Get(ref, "title", <<>>) # <<>> THEN << <<"   - ">> \o ref.title >> ELSE <<>>)
            \o (IF Get(ref, "url", <<>>) # <<>> THEN << <<"     ">> \o ref.url >> ELSE <<>>)
        WebRefLine(ref) ==
            IF Get(ref, "url", <<>>) # <<>> THEN << <<"Link: ">> \o ref.url >> ELSE <<>>
    IN  (IF web_search # <<>>
         THEN << <<"Additional web search results: ", ToString(Len(web_search)),
                   " result(s)">> >>
              \o FlatMap(WebLines, [i \in DOMAIN web_search |-> i])
         ELSE <<>>)
        \o (IF docs_refs # <<>>
            THEN << <<"Docs: ", ToString(Len(docs_refs)), " reference(s)">> >>
                 \o FlatMap(DocLines, docs_refs)
            ELSE <<>>)
        \o FlatMap(WebRefLine, web_refs)
        \o (IF pieces # <<>>
            THEN << <<"Context: ", ToString(Len(pieces)), " piece(s)">> >> ELSE <<>>)

\* toolFormerData is an object when present; its name is text
extract_intermediate_actions(bubble) ==
    ToolActions(Get(bubble, "toolFormerData", NoObj)) \o BubbleArrayActions(bubble)

\* extract_intermediate_actions raises instead of returning its list.
ActionsRaise(bubble) == ToolRaises(Get(bubble, "toolFormerData", NoObj))


\* ------------------------------------------------------ transcript renderer
Blank == <<>>

\* The context_info list of one bubble: the blocks of its message-context record
\* (context_data), then the blocks of its own arrays, then the mode line.
ContextDataInfo(context_data) ==
    LET files          == Get(context_data, "files", <<>>)
        todos          == Get(context_data, "todos", <<>>)
        terminal_files == Get(context_data, "terminalFiles", <<>>)
        cursor_rules   == Get(context_data, "cursorRules", <<>>)
        FileLine(f) == IF "path" \in DOMAIN f THEN << <<"- ">> \o f.path >> ELSE <<>>
        TodoLine(t) ==
            << <<"- [">> \o Get(t, "status", <<"u", "n", "k", "n", "o", "w", "n">>)
               \o <<"] ">> \o Get(t, "content", <<"U", "n", "k", "n", "o", "w", "n">>) >>
        TermLine(t) == << <<"- ">> \o t >>
        RuleLine(r) ==
            LET c == Get(r, "content", Get(r, "text", <<>>))
            IN  IF c # <<>> THEN << <<"- ">> \o c >> ELSE <<>>
    IN  (IF files # <<>>
         THEN << <<"**Files Referenced (", ToString(Len(files)), "):**">> >>
              \o FlatMap(FileLine, files) \o <<Blank>>
         ELSE <<>>)
        \o (IF todos # <<>>
            THEN << <<"**[TODOs]** (", ToString(Len(todos)), ")">> >>
                 \o FlatMap(TodoLine, todos) \o <<Blank>>
            ELSE <<>>)
        \o (IF terminal_files # <<>>
            THEN << <<"**Terminal Context (", ToString(Len(terminal_files)), "):**">> >>
                 \o FlatMap(TermLine, terminal_files) \o <<Blank>>
            ELSE <<>>)
        \o (IF cursor_rules # <<>>
            THEN << <<"**Cursor Rules (", ToString(Len(cursor_rules)), "):**">> >>
                 \o FlatMap(RuleLine, cursor_rules) \o <<Blank>>
            ELSE <<>>)

BubbleArraysInfo(bubble) ==
    LET git_diffs       == Get(bubble, "gitDiffs", <<>>)
        commits         == Get(bubble, "commits", <<>>)
        pull_requests   == Get(bubble, "pullRequests", <<>>)
        all_lints       == Get(bubble, "lints", <<>>)
                           \o Get(bubble, "approximateLintErrors", <<>>)
                           \o Get(bubble, "multiFileLinterErrors", <<>>)
        human_changes   == Get(bubble, "humanChanges", <<>>)
        attached        == IF Get(bubble, "attachedFolders", <<>>) # <<>>
                           THEN bubble.attachedFolders
                           ELSE Get(bubble, "attachedFoldersNew", <<>>)
        recently_viewed == Get(bubble, "recentlyViewedFiles", <<>>)
        images          == Get(bubble, "images", <<>>)
        DiffBodyLine(l) == << <<"  ">> \o l >>
        DiffLines(d) ==
            << <<"- ">> \o Get(d, "path", <<"U", "n", "k", "n", "o", "w", "n">>) >>
            \o (IF Get(d, "diff", <<>>) # <<>>
                THEN << <<"  ~~~diff">> >> \o FlatMap(DiffBodyLine, SplitLines(d.diff))
                     \o << <<"  ~~~">> >>
                ELSE <<>>)
        CommitLine(c) ==
            << <<"- ">> \o Take(Get(c, "sha", <<>>), 8) \o <<": ">>
               \o Get(c, "message", <<"No message">>) >>
        PrLine(pr) ==
            << <<"- PR #">> \o Get(pr, "number", <<>>) \o <<": ">>
               \o Get(pr, "title", <<"No title">>) >>
        LintLine(l) ==
            << <<"- [">> \o Get(l, "severity", <<"error">>) \o <<"] ">>
               \o Get(l, "message", <<"U", "n", "k", "n", "o", "w", "n">>)
               \o (IF Get(l, "file", <<>>) # <<>>
                   THEN <<" (">> \o l.file
                        \o (IF Get(l, "line", <<>>) # <<>> THEN <<":">> \o l.line ELSE <<>>)
                        \o <<")">>
                   ELSE <<>>) >>
        ChangeLine(c) ==
            << <<"- ">> \o Get(c, "type", <<"edit">>) \o <<": ">>
               \o Get(c, "file", <<"U", "n", "k", "n", "o", "w", "n">>) >>
        FolderLine(f) ==
            << <<"- ">> \o Get(f, "path", Get(f, "name", <<"U", "n", "k", "n", "o", "w", "n">>)) >>
        ViewedLine(f) ==
            LET path == Get(f, "path", Get(f, "file", <<>>))
            IN  IF path # <<>> THEN << <<"- ">> \o path >> ELSE <<>>
        ImageLine(img) ==
            << <<"- ">> \o Get(img, "name", Get(img, "filename", <<"Unnamed">>)) \o <<" (">>
               \o Get(img, "type", Get(img, "mimeType", <<"unknown">>)) \o <<")">> >>
    IN  (IF git_diffs # <<>>
         THEN << <<"**Git Diffs (", ToString(Len(git_diffs)), "):**">> >>
              \o FlatMap(DiffLines, git_diffs) \o <<Blank>>
         ELSE <<>>)
        \o (IF commits # <<>>
            THEN << <<"**Git Commits (", ToString(Len(commits)), "):**">> >>
                 \o FlatMap(CommitLine, commits) \o <<Blank>>
            ELSE <<>>)
        \o (IF pull_requests # <<>>
            THEN << <<"**Pull Requests (", ToString(Len(pull_requests)), "):**">> >>
                 \o FlatMap(PrLine, pull_requests) \o <<Blank>>
            ELSE <<>>)
        \o (IF all_lints # <<>>
            THEN << <<"**Linting Issues (", ToString(Len(all_lints)), "):**">> >>
                 \o FlatMap(LintLine, all_lints) \o <<Blank>>
            ELSE <<>>)
        \o (IF human_changes # <<>>
            THEN << <<"**Human Edits (", ToString(Len(human_changes)), "):**">> >>
                 \o FlatMap(ChangeLine, human_changes) \o <<Blank>>
            ELSE <<>>)
        \o (IF attached # <<>>
            THEN << <<"**Attached Folders (", ToString(Len(attached)), "):**">> >>
                 \o FlatMap(FolderLine, attached) \o <<Blank>>
            ELSE <<>>)
        \o (IF recently_viewed # <<>>
            THEN << <<"**Recently Viewed Files (", ToString(Len(recently_viewed)), "):**">> >>
                 \o FlatMap(ViewedLine, recently_viewed) \o <<Blank>>
            ELSE <<>>)
        \o (IF images # <<>>
            THEN << <<"**Images (", ToString(Len(images)), "):**">> >>
                 \o FlatMap(ImageLine, images) \o <<Blank>>
            ELSE <<>>)

ModeInfo(bubble) ==
    IF Get(bubble, "isAgentic", FALSE) THEN << <<"**Mode:** Agentic">>, Blank >> ELSE <<>>

\* The message-context record of a bubble: looked up only when it has a bubbleId.
BubbleContextData(contexts, cid, bubble) ==
    IF Get(bubble, "bubbleId", <<>>) # <<>>
    THEN get_message_context(contexts, cid, bubble.bubbleId)
    ELSE NoObj

ContextInfo(contexts, cid, bubble) ==
    ContextDataInfo(BubbleContextData(contexts, cid, bubble))
    \o BubbleArraysInfo(bubble) \o ModeInfo(bubble)

\* A skip test that lets every bubble through.
IsSkippedNever(contexts, cid, bubble) == FALSE

\* "Skip empty bubbles unless they have actions, context, or thinking"
IsSkipped(contexts, cid, bubble) ==
    /\ extract_message_content(bubble) = <<>>
    /\ extract_intermediate_actions(bubble) = <<>>
    /\ ContextInfo(contexts, cid, bubble) = <<>>
    /\ extract_thinking_content(bubble) = <<>>

\* The test that opens a grouped [Actions] block at the current bubble.
IsActionOnly(contexts, cid, bubble) ==
    /\ extract_message_content(bubble) = <<>>
    /\ extract_intermediate_actions(bubble) # <<>>
    /\ ContextInfo(contexts, cid, bubble) = <<>>
    /\ extract_thinking_content(bubble) = <<>>

\* The look-ahead's test of a following bubble: of the context it reads only the
\* four fields of the message-context record.
NextIsActionOnly(contexts, cid, next_bubble) ==
    LET next_context_data == BubbleContextData(contexts, cid, next_bubble)
    IN  /\ extract_message_content(next_bubble) = <<>>
        /\ extract_intermediate_actions(next_bubble) # <<>>
        /\ \A field \in {"files", "todos", "terminalFiles", "cursorRules"} :
               Get(next_context_data, field, <<>>) = <<>>
        /\ extract_thinking_content(next_bubble) = <<>>

\* A look-ahead that collects nothing.
LookAheadNone(contexts, cid, bubbles, j) == j

\* The index j at which the look-ahead started at bubble i stops.
RECURSIVE LookAhead(_, _, _, _)
LookAhead(contexts, cid, bubbles, j) ==
    IF j <= Len(bubbles) /\ NextIsActionOnly(contexts, cid, bubbles[j])
    THEN LookAhead(contexts, cid, bubbles, j + 1)
    ELSE j

\* A rendered line with the bubble it comes from: [src, kind, line].
Tag(src, kind, lines) == [k \in DOMAIN lines |-> [src |-> src, kind |-> kind, line |-> lines[k]]]

ActionItem(action) == << <<"- ">> \o action >>

RECURSIVE GroupedActions(_, _, _)
GroupedActions(bubbles, i, j) ==
    IF i >= j THEN <<>>
    ELSE Tag(i, "action", FlatMap(ActionItem, extract_intermediate_actions(bubbles[i])))
         \o GroupedActions(bubbles, i + 1, j)

RoleTitle(role) ==
    CASE role = "user" -> "**[User]** "
      [] role = "assistant" -> "**[Agent]** "
      [] OTHER -> "**[Unknown]** "

\* The lines one bubble gets outside a grouped block.
BubbleLines(contexts, cid, bubbles, i) ==
    LET bubble   == bubbles[i]
        content  == extract_message_content(bubble)
        thinking == extract_thinking_content(bubble)
        actions  == extract_intermediate_actions(bubble)
        info     == ContextInfo(contexts, cid, bubble)
    IN  (IF thinking # <<>>
         THEN Tag(i, "thinking", << <<"**[Thinking]** ">> \o thinking, Blank >>) ELSE <<>>)
        \o (IF content # <<>>
            THEN Tag(i, "content", << <<RoleTitle(get_message_role(bubble))>> \o content >>)
            ELSE <<>>)
        \o (IF info # <<>>
            THEN (IF content # <<>> THEN Tag(i, "blank", <<Blank>>) ELSE <<>>)
                 \o Tag(i, "context", info)
            ELSE <<>>)
        \o (IF actions # <<>> /\ content # <<>>
            THEN Tag(i, "blank", <<Blank>>) \o Tag(i, "heading", << <<"**[Actions]**">> >>)
                 \o Tag(i, "action", FlatMap(ActionItem, actions))
            ELSE <<>>)
        \o Tag(i, "blank", <<Blank>>)

\* The while loop of format_conversation_markdown from bubble i on, last_role
\* "none" standing for None.
RECURSIVE RenderFrom(_, _, _, _, _)
RenderFrom(contexts, cid, bubbles, i, last_role) ==
    IF i > Len(bubbles) THEN <<>>
    ELSE LET bubble == bubbles[i]
             role   == get_message_role(bubble)
             sep    == IF last_role # "none" /\ last_role # role
                       THEN Tag(i, "sep", <<Blank, <<"---">>, Blank>>) ELSE <<>>
         IN  IF IsSkipped(contexts, cid, bubble)
             THEN RenderFrom(contexts, cid, bubbles, i + 1, last_role)
             ELSE IF IsActionOnly(contexts, cid, bubble)
             THEN LET j == LookAhead(contexts, cid, bubbles, i + 1)
                  IN  sep \o Tag(i, "heading", << <<"**[Actions]**">> >>)
                      \o GroupedActions(bubbles, i, j)
                      \o Tag(i, "blank", <<Blank>>)
                      \o RenderFrom(contexts, cid, bubbles, j, "assistant")
             ELSE sep \o BubbleLines(contexts, cid, bubbles, i)
                  \o RenderFrom(contexts, cid, bubbles, i + 1, role)

\* The lines of the message part of the document, each with its source bubble.
RenderBody(contexts, cid, bubbles) == RenderFrom(contexts, cid, bubbles, 1, "none")

RECURSIVE SumTokens(_, _)
SumTokens(bubbles, field) ==
    IF bubbles = <<>> THEN 0
    ELSE Get(Get(Head(bubbles), "tokenCount", NoObj), field, 0) + SumTokens(Tail(bubbles), field)

\* The lines before the messages; now is the time of the call (datetime.now()).
HeaderLines(thread_data, cid, bubbles, now) ==
    LET created_at == Get(thread_data, "createdAt", 0)
        updated_at == Get(thread_data, "lastUpdatedAt", created_at)
        tin        == SumTokens(bubbles, "inputTokens")
        tout       == SumTokens(bubbles, "outputTokens")
        files      == Get(Get(thread_data, "context", NoObj), "files", <<>>)
        FileName(f) == <<f.name>>
    IN  << <<"# ">> \o Get(thread_data, "name", <<"Untitled Conversation">>),
           Blank,
           <<"**Exported:** ">> \o FormatDateTime(now) \o <<"  ">>,
           <<"**Thread ID:** ">> \o cid \o <<"  ">>,
           <<"**Created:** ">> \o FormatDateTime(created_at) \o <<"  ">>,
           <<"**Last Updated:** ">> \o FormatDateTime(updated_at) \o <<"  ">>,
           <<"**Messages:** ", ToString(Len(bubbles)), "  ">> >>
        \o (IF tin > 0 \/ tout > 0
            THEN << <<"**Tokens:** ", ToString(tin + tout), " (", ToString(tin), " in / ",
                      ToString(tout), " out)  ">> >>
            ELSE <<>>)
        \o <<Blank>>
        \o (IF files # <<>>
            THEN << <<"**Context:** ">> \o Join(FlatMap(FileName, files), <<",", " ">>)
                    \o <<"  ">>, Blank >>
            ELSE <<>>)

\* ', '.join(f['name'] for f in context_files) raises KeyError: a file entry of
\* the thread's context has no name.
HeaderRaises(thread_data) ==
    LET files == Get(Get(thread_data, "context", NoObj), "files", <<>>)
    IN  \E k \in DOMAIN files : "name" \notin DOMAIN files[k]

\* format_conversation_markdown raises: it calls extract_intermediate_actions on
\* every bubble of the list, in its loop or in the look-ahead.
FormatRaises(bubbles) == \E k \in DOMAIN bubbles : ActionsRaise(bubbles[k])

\* md_lines
MarkdownLines(thread_data, cid, bubbles, contexts, now) ==
    LET body == RenderBody(contexts, cid, bubbles)
    IN  HeaderLines(thread_data, cid, bubbles, now) \o [k \in DOMAIN body |-> body[k].line]

\* format_conversation_markdown: '\n'.join(md_lines)
format_conversation_markdown(thread_data, cid, bubbles, contexts, now) ==
    Join(MarkdownLines(thread_data, cid, bubbles, contexts, now), <<"\n">>)


\* -------------------------------------------------------- terminal history
TerminalStem == <<"t", "e", "r", "m", "i", "n", "a", "l", "-",
                  "h", "i", "s", "t", "o", "r", "y">>

\* The document export_terminal_history writes: commands and dirs are the entries
\* of the two ItemTable rows, newest last; the last 50 commands and the last 20
\* directories are listed, newest first.
TerminalHistoryLines(commands, dirs, now) ==
    LET shown  == LastN(commands, 50)
        first  == Len(commands) - Len(shown)
        dshown == LastN(dirs, 20)
        CommandLine(i) ==
            LET entry == shown[Len(shown) + 1 - i]
            IN  << <<"**", ToString(first + i), ".** ">> \o Get(entry, "key", <<>>) \o <<" (">>
                   \o Get(Get(entry, "value", NoObj), "shellType", <<"unknown">>) \o <<")">>,
                   Blank >>
        DirLine(i) ==
            << <<"**", ToString(i), ".** ">> \o Get(dshown[Len(dshown) + 1 - i], "key", <<>>) >>
    IN  << <<"# Terminal History">>, Blank,
           <<"**Exported:** ">> \o FormatDateTime(now) \o <<"  ">>,
           <<"**Total Commands:** ", ToString(Len(commands)), "  ">>, Blank,
           <<"## Recent Commands">>, Blank >>
        \o FlatMap(CommandLine, [i \in DOMAIN shown |-> i])
        \o (IF dirs # <<>>
            THEN << <<"## Recent Directories">>, Blank >>
                 \o FlatMap(DirLine, [i \in DOMAIN dshown |-> i]) \o <<Blank>>
            ELSE <<>>)

\* ------------------------------------------------------------------- state
VARIABLES
    now,              \* the clock, epoch milliseconds
    globalDb,         \* the global store instance
    workspaceDbs,     \* the workspace store instances, in glob order; rows are the
                      \* bubbleId:* rows an instance holds itself
    bubbleRows,       \* the bubbleId:* rows of the global store, in scan order
    contexts,         \* the messageRequestContext rows: (cid, bubble id) -> blob
    terminal,         \* [commands, dirs]: the terminal history entries of ItemTable
    outdir,           \* the output directory: stem of a '*.md' file -> [mtime, content]
    pc,               \* where the invocation of export_conversations stands
    runs,             \* invocations started
    edits,            \* changes made to the store
    faults,           \* failed writes and kills of the process
    min_timestamp_ms, \* the argument of the invocation, 0 for None
    existing_by_cid,  \* the index of the output files by the last 8 characters of the stem
    needs_export,     \* the threads the partition step keeps, as (cid, data)
    i,                \* the position of the export loop in needs_export
    bubbles_by_cid,   \* the result of get_bubbles_batch
    cid_short,        \* the variable cid_short, as the partition loop left it
    exported_count,
    file_path,        \* the file the loop has opened for writing
    markdown_content, \* the document it is about to write
    up_to_date,       \* history: the cids the partition step classified up-to-date
    cid_set,          \* history: the argument given to get_bubbles_batch
    written,          \* history: the (cid, stem) pairs written by this invocation
    written_before,   \* history: the (cid, stem) pairs written by the invocations before
    write_failed,     \* history: whether a write of this invocation failed
    write_errors,     \* history: the (cid, stem) pairs of its 'Error writing' messages
    dir_at_start,     \* history: the output directory when this invocation started
    repeat,           \* history: this invocation follows a completed one, store unchanged
    after_crash,      \* history: this invocation follows an interrupted one, store unchanged
    unchanged,        \* history: no store change since the last invocation started
    all_threads,      \* the result of a call of get_all_composer_threads
    thread_record,    \* the thread record given to format_conversation_markdown
    thread_bubbles,   \* the bubble list given to format_conversation_markdown
    md_lines,         \* the message lines it produced, each with its source bubble
    md_text,          \* the string it returned
    md_again,         \* the string a second call on the same arguments returned
    call_bubble,      \* the bubble given to extract_intermediate_actions
    call_actions,     \* what the call gave: [raised, lines]
    call_result,      \* what get_message_role or extract_message_content returned
    name_call,        \* the arguments given to generate_filename
    name_stem,        \* the stem of the file name it returned
    lock_owner,       \* the process that holds the lock on LOCK_FILE, 0 when it is free
    ppc,              \* where each process of the program stands
    wrote,            \* the output files each process has written
    launches          \* processes started

storeVars == <<globalDb, workspaceDbs, bubbleRows, contexts, terminal>>

runVars == <<min_timestamp_ms, existing_by_cid, needs_export, i, bubbles_by_cid, cid_short,
             exported_count, file_path, markdown_content>>

histVars == <<up_to_date, cid_set, written, written_before, write_failed, write_errors,
              dir_at_start, repeat, after_crash>>

\* The variables of the calls of single functions.
mergeVars == <<all_threads>>

renderVars == <<thread_record, thread_bubbles, md_lines, md_text, md_again>>

extractVars == <<call_bubble, call_actions, call_result>>

nameVars == <<name_call, name_stem>>

lockVars == <<lock_owner, ppc, wrote, launches>>

callVars == <<mergeVars, renderVars, extractVars, nameVars, lockVars>>

\* No call of a single function is under way.
NoMerge == all_threads = <<>>

NoRender ==
    /\ thread_record = <<>>
    /\ thread_bubbles = <<>> /\ md_lines = <<>> /\ md_text = <<>> /\ md_again = <<>>

NoExtract == call_bubble = <<>> /\ call_actions = <<>> /\ call_result = <<>>

NoName == name_call = <<>> /\ name_stem = <<>>

NoLock == lock_owner = 0 /\ ppc = <<>> /\ wrote = <<>> /\ launches = 0

\* The variables of the export controller.
ctlVars == <<now, storeVars, outdir, runs, edits, faults, runVars, histVars, unchanged>>

vars == <<now, storeVars, outdir, pc, runs, edits, faults, runVars, histVars, unchanged,
          callVars>>

\* ------------------------------------------------------ export controller
\* thread_data.get('lastUpdatedAt', thread_data.get('createdAt', 0))
ThreadUpdatedMs(thread_data) ==
    Get(thread_data, "lastUpdatedAt", Get(thread_data, "createdAt", 0))

\* The possible results of the pre-index loop over output_path.glob('*.md'): for
\* every 8-character suffix the file listed last among those that carry it.  The
\* order of the listing is the file system's.
IndexChoices(dir) ==
    LET suffixes == {LastN(f, 8) : f \in DOMAIN dir}
    IN  {ix \in [suffixes -> DOMAIN dir] : \A sfx \in suffixes : LastN(ix[sfx], 8) = sfx}

\* The partition test without its guard on the timestamp: a thread whose
\* timestamp is 0 is compared like any other.
IsUpToDateUnguarded(index, dir, cid, thread_data) ==
    /\ Take(cid, 8) \in DOMAIN index
    /\ dir[index[Take(cid, 8)]].mtime >= ThreadUpdatedMs(thread_data)

\* The test of the partition loop: the thread is skipped as up to date.
IsUpToDate(index, dir, cid, thread_data) ==
    /\ ThreadUpdatedMs(thread_data) # 0
    /\ Take(cid, 8) \in DOMAIN index
    /\ dir[index[Take(cid, 8)]].mtime >= ThreadUpdatedMs(thread_data)

\* if min_timestamp_ms: keep the threads created at or after it
FilterThreads(threads, min_ts) ==
    IF min_ts # 0
    THEN SelectSeq(threads, LAMBDA t : Get(t[2], "createdAt", 0) >= min_ts)
    ELSE threads

\* A first_content that takes any bubble for content.
FirstContentOfAny(bubbles) == IF bubbles = <<>> THEN <<>> ELSE <<"x">>

\* first_content: the content of the first bubble that has some
RECURSIVE FirstContent(_)
FirstContent(bubbles) ==
    IF bubbles = <<>> THEN <<>>
    ELSE IF extract_message_content(Head(bubbles)) # <<>>
         THEN extract_message_content(Head(bubbles))
         ELSE FirstContent(Tail(bubbles))

CurrentCid == needs_export[i][1]

CurrentData == needs_export[i][2]

CurrentBubbles == Get(bubbles_by_cid, CurrentCid, <<>>)

\* dict assignment d[k] = v
DictSet(d, k, v) == [x \in DOMAIN d \cup {k} |-> IF x = k THEN v ELSE d[x]]

\* No invocation is under way: none was started, or the last one returned
\* ("done", "nostore"), was killed ("crashed") or died of an exception ("raised").
Quiet == pc \in {"idle", "done", "crashed", "raised", "nostore"}

\* An exception leaves export_conversations before the export loop: from the sort
\* of get_all_composer_threads or, the global database being there, from the
\* query of get_bubbles_batch.
StartRaises ==
    \/ MergeRaises(globalDb, workspaceDbs)
    \/ globalDb.exists /\ (~globalDb.readable \/ BatchRaises(bubbleRows))

\* What every start of an invocation does to the history.
StartHistory(min_ts) ==
    /\ written' = {}
    /\ written_before' = written_before \cup written
    /\ write_failed' = FALSE
    /\ write_errors' = {}
    /\ dir_at_start' = outdir
    /\ repeat' = (pc = "done" /\ unchanged /\ ~write_failed /\ min_ts = min_timestamp_ms)
    /\ after_crash' = (pc = "crashed" /\ unchanged /\ min_ts = min_timestamp_ms)
    /\ unchanged' = TRUE

\* An invocation that ends before the export loop, in state end.
EndsAtStart(min_ts, end) ==
    /\ Quiet /\ runs < MaxRuns
    /\ min_timestamp_ms' = min_ts
    /\ needs_export' = <<>>
    /\ i' = 1
    /\ up_to_date' = {}
    /\ cid_set' = {}
    /\ pc' = end
    /\ runs' = runs + 1
    /\ StartHistory(min_ts)
    /\ UNCHANGED callVars
    /\ UNCHANGED <<now, storeVars, outdir, edits, faults, existing_by_cid, bubbles_by_cid,
                   cid_short, exported_count, file_path, markdown_content>>

\* The exception is not caught: the invocation dies, nothing is written.
StartRunRaises(min_ts) == StartRaises /\ EndsAtStart(min_ts, "raised")

\* The global database file is not there: the error is printed and the
\* invocation returns, whatever the workspace databases hold.
StartRunNoStore(min_ts) ==
    ~StartRaises /\ ~globalDb.exists /\ EndsAtStart(min_ts, "nostore")

\* export_conversations up to the export loop: reconstruct and filter the threads,
\* index the output directory, partition, fetch the bubbles in one scan.
StartRun(min_ts) ==
    /\ Quiet
    /\ runs < MaxRuns
    /\ globalDb.exists /\ ~StartRaises
    /\ \E index \in IndexChoices(outdir) :
        LET threads == FilterThreads(get_all_composer_threads(globalDb, workspaceDbs), min_ts)
            skip    == SelectSeq(threads, LAMBDA t : IsUpToDate(index, outdir, t[1], t[2]))
            keep    == SelectSeq(threads, LAMBDA t : ~IsUpToDate(index, outdir, t[1], t[2]))
            cids    == {keep[k][1] : k \in DOMAIN keep}
        IN  /\ existing_by_cid' = index
            /\ needs_export' = keep
            /\ cid_short' = IF threads = <<>> THEN <<>> ELSE Take(threads[Len(threads)][1], 8)
            /\ exported_count' = Len(skip)
            /\ bubbles_by_cid' = get_bubbles_batch(bubbleRows, cids)
            /\ up_to_date' = {skip[k][1] : k \in DOMAIN skip}
            /\ cid_set' = cids
    /\ min_timestamp_ms' = min_ts
    /\ i' = 1
    /\ pc' = "loop"
    /\ runs' = runs + 1
    /\ StartHistory(min_ts)
    /\ UNCHANGED callVars
    /\ UNCHANGED <<now, storeVars, outdir, edits, faults, file_path, markdown_content>>

\* The loop body raises outside its try: on a bubble that is no object (in the
\* search for first_content or in the renderer), or in the renderer on a tool
\* payload it cannot read.
ThreadRaises(bubbles) ==
    \/ \E k \in DOMAIN bubbles : bubbles[k] = NonObject
    \/ FirstContent(bubbles) # <<>> /\ FormatRaises(bubbles)

\* The exception is not caught: the invocation dies at this thread.
LoopRaises ==
    /\ pc = "loop" /\ i <= Len(needs_export)
    /\ ThreadRaises(CurrentBubbles)
    /\ pc' = "raised"
    /\ UNCHANGED callVars
    /\ UNCHANGED <<now, storeVars, outdir, runs, edits, faults, runVars, histVars, unchanged>>

\* The loop body up to 'continue': a thread without bubbles, or without content.
SkipThread ==
    /\ pc = "loop" /\ i <= Len(needs_export)
    /\ ~ThreadRaises(CurrentBubbles)
    /\ FirstContent(CurrentBubbles) = <<>>
    /\ i' = i + 1
    /\ UNCHANGED callVars
    /\ UNCHANGED <<now, storeVars, outdir, pc, runs, edits, faults, min_timestamp_ms, existing_by_cid,
                   needs_export, bubbles_by_cid, cid_short, exported_count, file_path,
                   markdown_content, histVars, unchanged>>

\* The file name and the document are computed and open(file_path, 'w') succeeds:
\* the file is there and empty.
OpenFile ==
    /\ pc = "loop" /\ i <= Len(needs_export)
    /\ ~ThreadRaises(CurrentBubbles)
    /\ FirstContent(CurrentBubbles) # <<>>
    /\ file_path' = generate_filename(CurrentData, CurrentCid, FirstContent(CurrentBubbles))
    /\ markdown_content' = format_conversation_markdown(CurrentData, CurrentCid,
                                                        CurrentBubbles, contexts, now)
    /\ outdir' = DictSet(outdir, file_path', [mtime |-> now, content |-> <<>>])
    /\ pc' = "write"
    /\ UNCHANGED callVars
    /\ UNCHANGED <<now, storeVars, runs, edits, faults, min_timestamp_ms, existing_by_cid, needs_export,
                   i, bubbles_by_cid, cid_short, exported_count, histVars, unchanged>>

\* open() raises: the error is printed and the loop goes on.
OpenFails ==
    /\ faults < MaxFaults
    /\ faults' = faults + 1
    /\ pc = "loop" /\ i <= Len(needs_export)
    /\ ~ThreadRaises(CurrentBubbles)
    /\ FirstContent(CurrentBubbles) # <<>>
    /\ write_failed' = TRUE
    /\ write_errors' = write_errors \cup
           {<<CurrentCid, generate_filename(CurrentData, CurrentCid,
                                            FirstContent(CurrentBubbles))>>}
    /\ i' = i + 1
    /\ UNCHANGED callVars
    /\ UNCHANGED <<now, storeVars, outdir, pc, runs, edits, min_timestamp_ms, existing_by_cid,
                   needs_export, bubbles_by_cid, cid_short, exported_count, file_path,
                   markdown_content, up_to_date, cid_set, written, written_before, dir_at_start,
                   repeat,
                   after_crash, unchanged>>

\* f.write and the close of the file, then the bookkeeping after the with block.
WriteFile ==
    /\ pc = "write"
    /\ outdir' = DictSet(outdir, file_path, [mtime |-> now, content |-> markdown_content])
    /\ existing_by_cid' = DictSet(existing_by_cid, cid_short, file_path)
    /\ exported_count' = exported_count + 1
    /\ written' = written \cup {<<CurrentCid, file_path>>}
    /\ i' = i + 1
    /\ pc' = "loop"
    /\ UNCHANGED callVars
    /\ UNCHANGED <<now, storeVars, runs, edits, faults, min_timestamp_ms, needs_export, bubbles_by_cid,
                   cid_short, file_path, markdown_content, up_to_date, cid_set, written_before,
                   write_failed, write_errors, dir_at_start, repeat, after_crash, unchanged>>

\* A failed write that would end the loop instead of going on to the next thread.
WriteFailsEndsRun ==
    /\ faults < MaxFaults
    /\ faults' = faults + 1
    /\ pc = "write"
    /\ write_failed' = TRUE
    /\ write_errors' = write_errors \cup {<<CurrentCid, file_path>>}
    /\ i' = Len(needs_export) + 1
    /\ pc' = "loop"
    /\ UNCHANGED callVars
    /\ UNCHANGED <<now, storeVars, outdir, runs, edits, min_timestamp_ms, existing_by_cid,
                   needs_export, bubbles_by_cid, cid_short, exported_count, file_path,
                   markdown_content, up_to_date, cid_set, written, written_before, dir_at_start,
                   repeat, after_crash, unchanged>>

\* f.write raises: the file stays as open() left it, the loop goes on.
WriteFails ==
    /\ faults < MaxFaults
    /\ faults' = faults + 1
    /\ pc = "write"
    /\ write_failed' = TRUE
    /\ write_errors' = write_errors \cup {<<CurrentCid, file_path>>}
    /\ i' = i + 1
    /\ pc' = "loop"
    /\ UNCHANGED callVars
    /\ UNCHANGED <<now, storeVars, outdir, runs, edits, min_timestamp_ms, existing_by_cid,
                   needs_export, bubbles_by_cid, cid_short, exported_count, file_path,
                   markdown_content, up_to_date, cid_set, written, written_before, dir_at_start,
                   repeat,
                   after_crash, unchanged>>

\* After the loop: export_terminal_history, which writes its document when the
\* commands row holds something, and the return.
FinishRun ==
    /\ pc = "loop" /\ i > Len(needs_export)
    /\ outdir' = IF terminal.commands # <<>>
                 THEN DictSet(outdir, TerminalStem,
                              [mtime |-> now,
                               content |-> Join(TerminalHistoryLines(terminal.commands,
                                                                     terminal.dirs, now),
                                                <<"\n">>)])
                 ELSE outdir
    /\ pc' = "done"
    /\ UNCHANGED callVars
    /\ UNCHANGED <<now, storeVars, runs, edits, faults, runVars, histVars, unchanged>>

\* The process is killed inside the loop.
Crash ==
    /\ faults < MaxFaults
    /\ faults' = faults + 1
    /\ pc \in {"loop", "write"}
    /\ pc' = "crashed"
    /\ UNCHANGED callVars
    /\ UNCHANGED <<now, storeVars, outdir, runs, edits, runVars, histVars, unchanged>>

\* Time passes between invocations.
Tick ==
    /\ Quiet /\ runs < MaxRuns
    /\ now < MaxTick * 60000
    /\ now' = now + 60000
    /\ UNCHANGED callVars
    /\ UNCHANGED <<storeVars, outdir, pc, runs, edits, faults, runVars, histVars, unchanged>>


\* ------------------------------------------------------- the store's owner
\* The store belongs to the editor, which changes it between invocations, at a
\* later time than the invocation before.
\* Between two invocations.
Between == pc \in {"done", "crashed", "raised", "nostore"} /\ runs < MaxRuns

KvCids == {globalDb.kv[k].cid : k \in DOMAIN globalDb.kv}

\* The composerData row of thread c gets the fields of patch.
PatchThread(c, patch) ==
    [globalDb EXCEPT !.kv =
        [k \in DOMAIN globalDb.kv |->
            IF globalDb.kv[k].cid = c /\ globalDb.kv[k].blob.t = "obj"
            THEN [cid |-> c,
                  blob |-> Obj([f \in DOMAIN globalDb.kv[k].blob.v \cup DOMAIN patch |->
                                   IF f \in DOMAIN patch THEN patch[f]
                                   ELSE globalDb.kv[k].blob.v[f]])]
            ELSE globalDb.kv[k]]]

BubbleKey(c, n) == c \o <<":", "b", ToString(n)>>

UserBubble(text, at) == [type |-> 1, content |-> text, createdAt |-> at]

EmptyBubble(at) == [type |-> 2, createdAt |-> at]

MessageTexts == {<<"y", "o">>}

Titles == {<<"t", "2">>}

\* A thread gains a message.
AppendMessage(c, text) ==
    /\ Between /\ edits < MaxEdits
    /\ now < MaxTick * 60000
    /\ now' = now + 60000
    /\ c \in KvCids
    /\ bubbleRows' = Append(bubbleRows, [rest |-> BubbleKey(c, Len(bubbleRows) + 1),
                                         blob |-> Obj(UserBubble(text, now'))])
    /\ globalDb' = PatchThread(c, [lastUpdatedAt |-> now'])
    /\ edits' = edits + 1
    /\ unchanged' = FALSE
    /\ UNCHANGED callVars
    /\ UNCHANGED <<workspaceDbs, contexts, terminal, outdir, pc, runs, faults, runVars, histVars>>

\* A thread is given another title.
RenameThread(c, title) ==
    /\ Between /\ edits < MaxEdits
    /\ now < MaxTick * 60000
    /\ now' = now + 60000
    /\ c \in KvCids
    /\ globalDb' = PatchThread(c, [name |-> title, lastUpdatedAt |-> now'])
    /\ globalDb' # globalDb
    /\ edits' = edits + 1
    /\ unchanged' = FALSE
    /\ UNCHANGED callVars
    /\ UNCHANGED <<workspaceDbs, bubbleRows, contexts, terminal, outdir, pc, runs, faults,
                   runVars, histVars>>

\* The first message of a thread (the first of its rows in scan order) is edited.
ChangeFirstMessage(c, text) ==
    /\ Between /\ edits < MaxEdits
    /\ now < MaxTick * 60000
    /\ now' = now + 60000
    /\ c \in KvCids
    /\ \E k \in DOMAIN bubbleRows :
        /\ RowCid(bubbleRows[k]) = c
        /\ \A j \in 1..(k - 1) : RowCid(bubbleRows[j]) # c
        /\ bubbleRows' = [bubbleRows EXCEPT ![k].blob = Obj(UserBubble(text, now'))]
    /\ bubbleRows' # bubbleRows
    /\ globalDb' = PatchThread(c, [lastUpdatedAt |-> now'])
    /\ edits' = edits + 1
    /\ unchanged' = FALSE
    /\ UNCHANGED callVars
    /\ UNCHANGED <<workspaceDbs, contexts, terminal, outdir, pc, runs, faults, runVars, histVars>>

\* ------------------------------------------------------------ initial state
CidA == <<"a", "b", "c", "d", "e", "f", "0", "1", "-", "1">>

\* shares its first 8 characters with CidA
CidB == <<"a", "b", "c", "d", "e", "f", "0", "1", "-", "2">>

CidC == <<"c", "0", "f", "f", "e", "e", "0", "2", "-", "3">>

NoBlob == [t |-> "null", v |-> NoObj]

ThreadDatas == {[createdAt |-> 60000, lastUpdatedAt |-> 60000, name |-> <<"t", "1">>],
                [createdAt |-> 60000],
                [name |-> <<"t", "1">>]}

\* The bubble lists a thread starts with, as the texts of its messages (<<>> is a
\* bubble without content).
BubbleTexts == {<<>>, << <<"h", "i">> >>, << <<>>, <<"h", "i">> >>, << <<>> >>}

RowsOf(c, texts, base) ==
    [k \in DOMAIN texts |->
        [rest |-> BubbleKey(c, base + k),
         blob |-> Obj(IF texts[k] = <<>> THEN EmptyBubble(60000)
                      ELSE UserBubble(texts[k], 60000))]]

\* The second thread of the store: none, one whose id shares the fingerprint of
\* the first, or one with a fingerprint of its own.
SecondThreads ==
    {<<>>,
     <<[cid |-> CidB, blob |-> Obj([createdAt |-> 60000])]>>,
     <<[cid |-> CidC, blob |-> Obj([createdAt |-> 60000, lastUpdatedAt |-> 60000,
                                    name |-> <<"t", "1">>])]>>}

\* The first thread of the store, CidA: its record and the texts of its bubbles.
FirstThreads ==
    {<<[createdAt |-> 60000, lastUpdatedAt |-> 60000, name |-> <<"t", "1">>], texts>> :
        texts \in BubbleTexts}
    \cup {<<d, << <<"h", "i">> >> >> : d \in ThreadDatas}

\* One workspace store, which holds the record of CidC and its message row; the
\* global store has no row of CidC.
Workspaces ==
    <<[exists |-> TRUE, readable |-> TRUE,
       kv |-> <<[cid |-> CidC,
                 blob |-> Obj([createdAt |-> 60000, lastUpdatedAt |-> 60000,
                               name |-> <<"t", "2">>])]>>,
       item |-> NoBlob,
       rows |-> RowsOf(CidC, << <<"h", "i">> >>, 0)]>>

TerminalChoices ==
    {[commands |-> <<>>, dirs |-> <<>>],
     [commands |-> <<[key |-> <<"l", "s">>, value |-> [shellType |-> <<"bash">>]]>>,
      dirs |-> <<>>]}

MinTimestamps == {0, 60000}

\* The state before the first invocation, the store apart.
InitRun ==
    /\ now = 60000
    /\ outdir = <<>>
    /\ runs = 0
    /\ edits = 0
    /\ faults = 0
    /\ min_timestamp_ms = 0
    /\ existing_by_cid = <<>>
    /\ needs_export = <<>>
    /\ i = 1
    /\ bubbles_by_cid = <<>>
    /\ cid_short = <<>>
    /\ exported_count = 0
    /\ file_path = <<>>
    /\ markdown_content = <<>>
    /\ up_to_date = {}
    /\ cid_set = {}
    /\ written = {}
    /\ written_before = {}
    /\ write_failed = FALSE
    /\ write_errors = {}
    /\ dir_at_start = <<>>
    /\ repeat = FALSE
    /\ after_crash = FALSE
    /\ unchanged = TRUE

\* A store of two threads, CidA and CidC, of one message each.
FullThread == [createdAt |-> 60000, lastUpdatedAt |-> 60000, name |-> <<"t", "1">>]

BaseGlobal ==
    [exists |-> TRUE, readable |-> TRUE,
     kv |-> <<[cid |-> CidA, blob |-> Obj(FullThread)], [cid |-> CidC, blob |-> Obj(FullThread)]>>,
     item |-> NoBlob]

BaseRows == RowsOf(CidA, << <<"h", "i">> >>, 0) \o RowsOf(CidC, << <<"h", "i">> >>, 1)

\* A value that is NULL, is not JSON, or is JSON but no object.
BadBlobs == {[t |-> t, v |-> NoObj] : t \in {"null", "bad", "arr"}}

\* A tool call whose arguments are a JSON array.
ArrayArgsBubble ==
    [type |-> 2, createdAt |-> 60000,
     toolFormerData |-> [name |-> <<"read_file">>, rawArgs |-> [t |-> "arr", v |-> NoObj]]]

Store(g, w, rows) == [globalDb |-> g, workspaceDbs |-> w, bubbleRows |-> rows]

\* Stores with one thing wrong: the global database file absent, or there and
\* not an SQLite database; the workspace database absent, or not an SQLite
\* database; one more thread row, of CidB, that is no record; a workspace row
\* of CidA that is no record, before a good row of CidC; one more bubble row of
\* CidA that is no bubble; a bubble of CidA with a tool call the formatter
\* cannot read.
DamagedStores ==
    {Store([BaseGlobal EXCEPT !.exists = FALSE, !.readable = FALSE, !.kv = <<>>],
           Workspaces, <<>>),
     Store([BaseGlobal EXCEPT !.readable = FALSE], Workspaces, BaseRows),
     Store(BaseGlobal, <<>>, BaseRows),
     Store(BaseGlobal, <<[Workspaces[1] EXCEPT !.readable = FALSE]>>, BaseRows),
     Store([BaseGlobal EXCEPT !.kv = <<BaseGlobal.kv[1]>>],
           <<[Workspaces[1] EXCEPT
                 !.kv = <<[cid |-> CidA, blob |-> [t |-> "arr", v |-> NoObj]]>>
                        \o Workspaces[1].kv]>>,
           RowsOf(CidA, << <<"h", "i">> >>, 0)),
     Store(BaseGlobal, Workspaces,
           Append(BaseRows, [rest |-> BubbleKey(CidA, 3), blob |-> Obj(ArrayArgsBubble)]))}
    \cup {Store([BaseGlobal EXCEPT !.kv = Append(BaseGlobal.kv, [cid |-> CidB, blob |-> b])],
                Workspaces, BaseRows) : b \in BadBlobs}
    \cup {Store(BaseGlobal, Workspaces,
                Append(BaseRows, [rest |-> BubbleKey(CidA, 3), blob |-> b])) : b \in BadBlobs}

Init ==
    /\ InitRun
    /\ pc = "idle"
    /\ \/ /\ \E first \in FirstThreads, second \in SecondThreads :
               LET d == first[1]  texts == first[2] IN
               /\ globalDb = [exists |-> TRUE, readable |-> TRUE,
                              kv |-> <<[cid |-> CidA, blob |-> Obj(d)]>> \o second,
                              item |-> NoBlob]
               /\ bubbleRows = RowsOf(CidA, texts, 0)
                               \o (IF second = <<>> THEN <<>>
                                   ELSE RowsOf(second[1].cid, << <<"h", "i">> >>, Len(texts)))
          /\ workspaceDbs = Workspaces
       \/ \E store \in DamagedStores :
            /\ globalDb = store.globalDb
            /\ workspaceDbs = store.workspaceDbs
            /\ bubbleRows = store.bubbleRows
    /\ contexts = <<>>
    /\ terminal \in TerminalChoices
    /\ NoMerge /\ NoRender /\ NoExtract /\ NoName /\ NoLock

Next ==
    \/ \E min_ts \in MinTimestamps : StartRun(min_ts)
    \/ \E min_ts \in MinTimestamps : StartRunRaises(min_ts)
    \/ \E min_ts \in MinTimestamps : StartRunNoStore(min_ts)
    \/ LoopRaises
    \/ SkipThread
    \/ OpenFile
    \/ OpenFails
    \/ WriteFile
    \/ WriteFails
    \/ FinishRun
    \/ Crash
    \/ Tick
    \/ \E c \in {CidA, CidB, CidC}, text \in MessageTexts : AppendMessage(c, text)
    \/ \E c \in {CidA, CidB, CidC}, title \in Titles : RenameThread(c, title)
    \/ \E c \in {CidA, CidB, CidC}, text \in MessageTexts : ChangeFirstMessage(c, text)

Spec == Init /\ [][Next]_vars

\* --------------------------------------- one call of get_all_composer_threads
\* lastUpdatedAt of the records of one thread; 0 stands for an absent field.
MergeStamps == {0, 60000, 120000}

\* A record of thread c; name tells the records of the thread apart.
ThreadRecord(c, stamp, name) ==
    IF stamp = 0 THEN [composerId |-> c, name |-> name]
    ELSE [composerId |-> c, name |-> name, lastUpdatedAt |-> stamp]

\* The global store: thread CidA as a composerData row, as an entry of the
\* allComposers array, both or neither.
MergeGlobals ==
    {[exists |-> TRUE, readable |-> TRUE, kv |-> kv, item |-> item] :
        kv \in {<<>>} \cup {<<[cid |-> CidA, blob |-> Obj(ThreadRecord(CidA, st, <<"k">>))]>> :
                              st \in MergeStamps},
        item \in {NoBlob}
                 \cup {Obj([allComposers |-> <<ThreadRecord(CidA, st, <<"c">>)>>]) :
                         st \in MergeStamps}}

\* The workspace stores, in glob order, each with a composerData row of CidA.
MergeWorkspaceDbs ==
    UNION {[1..n -> {[exists |-> TRUE, readable |-> TRUE,
                      kv |-> <<[cid |-> CidA,
                                blob |-> Obj(ThreadRecord(CidA, st, <<"w">>))]>>,
                      item |-> NoBlob] : st \in MergeStamps}] : n \in 0..MaxWorkspaces}

MergeInit ==
    /\ InitRun
    /\ pc = "merge"
    /\ globalDb \in MergeGlobals
    /\ workspaceDbs \in MergeWorkspaceDbs
    /\ bubbleRows = <<>>
    /\ contexts = <<>>
    /\ terminal = [commands |-> <<>>, dirs |-> <<>>]
    /\ NoMerge /\ NoRender /\ NoExtract /\ NoName /\ NoLock

\* get_all_composer_threads is called on the stores as they are.
Merge ==
    /\ pc = "merge"
    /\ all_threads' = get_all_composer_threads(globalDb, workspaceDbs)
    /\ pc' = "merged"
    /\ UNCHANGED <<ctlVars, renderVars, extractVars, nameVars, lockVars>>

MergeNext == Merge

MergeSpec == MergeInit /\ [][MergeNext]_vars

\* ------------------- one call of get_all_composer_threads on several threads
\* createdAt of a record; 0 stands for an absent field.
SortStamps == {0, 60000, 120000}

\* A row of thread c created at stamp, last updated at updated.
SortRow(c, stamp, updated) ==
    [cid |-> c,
     blob |-> Obj(IF stamp = 0 THEN [lastUpdatedAt |-> updated]
                  ELSE [createdAt |-> stamp, lastUpdatedAt |-> updated])]

\* The global store holds CidA and CidB, in either scan order; the workspace
\* store holds CidC and a newer record of CidA.
SortInit ==
    /\ InitRun
    /\ pc = "merge"
    /\ \E a \in SortStamps, b \in SortStamps, flip \in BOOLEAN :
        globalDb = [exists |-> TRUE, readable |-> TRUE,
                    kv |-> IF flip
                           THEN <<SortRow(CidB, b, 60000), SortRow(CidA, a, 60000)>>
                           ELSE <<SortRow(CidA, a, 60000), SortRow(CidB, b, 60000)>>,
                    item |-> NoBlob]
    /\ \E c \in SortStamps, a2 \in SortStamps :
        workspaceDbs = <<[exists |-> TRUE, readable |-> TRUE,
                          kv |-> <<SortRow(CidC, c, 60000), SortRow(CidA, a2, 120000)>>,
                          item |-> NoBlob]>>
    /\ bubbleRows = <<>>
    /\ contexts = <<>>
    /\ terminal = [commands |-> <<>>, dirs |-> <<>>]
    /\ NoMerge /\ NoRender /\ NoExtract /\ NoName /\ NoLock

SortSpec == SortInit /\ [][MergeNext]_vars

\* ------------------------------------- one call of format_conversation_markdown
Hi == <<"h", "i">>

DeleteTool == [name |-> <<"delete_file">>, rawArgs |-> Obj([target_file |-> <<"a">>])]

ListTool == [name |-> <<"list_dir">>, rawArgs |-> Obj([target_directory |-> <<"d">>])]

\* The message-context rows of the store: bubble b1 of CidA has files.
RenderContexts ==
    [key \in {<<CidA, <<"b", "1">>>>} |-> Obj([files |-> <<[path |-> <<"f">>]>>])]

\* The kinds of bubble a thread is made of: a user message, an agent message, an
\* agent message with a tool call, a bubble with nothing, one with only the agentic flag, two with only a tool
\* call (one of them without a type, so of unknown role), a tool call with a git
\* diff, a tool call with a message-context record, and one with only thinking
\* text.
BubbleShapes ==
    {[type |-> 1, content |-> Hi],
     [type |-> 2, content |-> <<"o", "k">>],
     [type |-> 2, content |-> <<"o", "k">>, toolFormerData |-> DeleteTool],
     [type |-> 2],
     [type |-> 2, isAgentic |-> TRUE],
     [type |-> 2, toolFormerData |-> DeleteTool],
     [toolFormerData |-> ListTool],
     [type |-> 2, toolFormerData |-> DeleteTool, gitDiffs |-> <<[path |-> <<"f">>]>>],
     [type |-> 2, toolFormerData |-> ListTool, bubbleId |-> <<"b", "1">>],
     [type |-> 2, thinking |-> [text |-> <<"h", "m">>]]}

BubbleLists == UNION {[1..n -> BubbleShapes] : n \in 0..MaxBubbles}

\* The record of the thread that is rendered.
RenderThread == [createdAt |-> 60000, lastUpdatedAt |-> 60000, name |-> <<"t", "1">>]

RenderInit ==
    /\ InitRun
    /\ pc = "render"
    /\ thread_record = RenderThread
    /\ globalDb = [exists |-> TRUE, readable |-> TRUE, kv |-> <<>>, item |-> NoBlob]
    /\ workspaceDbs = <<>>
    /\ bubbleRows = <<>>
    /\ contexts = RenderContexts
    /\ terminal = [commands |-> <<>>, dirs |-> <<>>]
    /\ NoMerge /\ NoExtract /\ NoName /\ NoLock
    /\ thread_bubbles \in BubbleLists
    /\ md_lines = <<>>
    /\ md_text = <<>>
    /\ md_again = <<>>

\* format_conversation_markdown is called on the bubbles of thread CidA.
Render ==
    /\ pc = "render"
    /\ IF HeaderRaises(thread_record) \/ FormatRaises(thread_bubbles)
       THEN pc' = "raised" /\ UNCHANGED <<md_lines, md_text>>
       ELSE /\ md_lines' = RenderBody(contexts, CidA, thread_bubbles)
            /\ md_text' = format_conversation_markdown(thread_record, CidA, thread_bubbles,
                                                       contexts, now)
            /\ pc' = "rendered"
    /\ UNCHANGED <<ctlVars, mergeVars, thread_record, thread_bubbles, md_again, extractVars,
                   nameVars, lockVars>>

\* It is called again on the same arguments, at the same time or later.
RenderAgain ==
    /\ pc = "rendered"
    /\ \E at \in {k * 60000 : k \in 1..MaxTick} :
        /\ at >= now
        /\ now' = at
        /\ md_again' = format_conversation_markdown(thread_record, CidA, thread_bubbles,
                                                    contexts, at)
    /\ pc' = "rendered twice"
    /\ UNCHANGED <<storeVars, outdir, runs, edits, faults, runVars, histVars, unchanged>>
    /\ UNCHANGED <<mergeVars, thread_record, thread_bubbles, md_lines, md_text, extractVars,
                   nameVars, lockVars>>

RenderNext == Render \/ RenderAgain

RenderSpec == RenderInit /\ [][RenderNext]_vars

\* ------------------------------------- one call of extract_intermediate_actions
\* The contents of a written file: three lines, a line break alone, a blank
\* alone, a line with its line break, one line.
WriteContents ==
    {<<"a", "\n", "b", "\n", "c">>, <<"\n">>, <<" ">>, <<"a", "\n">>, <<"x">>}

\* The objects an arguments payload parses to.
ArgObjects ==
    {[file_path |-> <<"f">>, contents |-> c] : c \in WriteContents}
    \cup {[file_path |-> <<"f">>],
          [contents |-> <<"x">>],
          [target_file |-> <<"f">>, command |-> <<"l", "s">>],
          [pattern |-> <<"p">>, output_mode |-> "files_with_matches"]}

ArgPayloads ==
    {[t |-> k, v |-> NoObj] : k \in {"null", "bad", "arr", "num"}}
    \cup {Obj(v) : v \in ArgObjects}
    \cup {[t |-> "raw", v |-> [target_file |-> <<"f">>]]}

ResultPayloads ==
    {[t |-> k, v |-> NoObj] : k \in {"null", "bad", "arr"}}
    \cup {Obj([output |-> <<"o">>, files |-> << <<"f">> >>]),
          [t |-> "raw", v |-> [output |-> <<"o">>]]}

\* The tool invocations: every tool the dispatch knows and one it does not, with
\* or without a params field that parses.
ToolInvocations ==
    {[name |-> n, rawArgs |-> a, params |-> p, result |-> r] :
        n \in RecognizedTools \cup {<<"mystery">>},
        a \in ArgPayloads,
        p \in {[t |-> "null", v |-> NoObj],
               Obj([target_file |-> <<"g">>, file_path |-> <<"g">>])},
        r \in ResultPayloads}

ExtractInit ==
    /\ InitRun
    /\ pc = "extract"
    /\ globalDb = [exists |-> TRUE, readable |-> TRUE, kv |-> <<>>, item |-> NoBlob]
    /\ workspaceDbs = <<>>
    /\ bubbleRows = <<>>
    /\ contexts = <<>>
    /\ terminal = [commands |-> <<>>, dirs |-> <<>>]
    /\ NoMerge /\ NoRender /\ NoName /\ NoLock
    /\ \E tfd \in ToolInvocations : call_bubble = [type |-> 2, toolFormerData |-> tfd]
    /\ call_actions = <<>>
    /\ call_result = <<>>

\* extract_intermediate_actions is called on the bubble.
Extract ==
    /\ pc = "extract"
    /\ call_actions' = IF ActionsRaise(call_bubble)
                       THEN [raised |-> TRUE, lines |-> <<>>]
                       ELSE [raised |-> FALSE,
                             lines |-> extract_intermediate_actions(call_bubble)]
    /\ pc' = "extracted"
    /\ UNCHANGED <<ctlVars, mergeVars, renderVars, call_bubble, call_result, nameVars, lockVars>>

ExtractSpec == ExtractInit /\ [][Extract]_vars

\* ------------------------------------------------- one call of get_message_role
\* The values of the fields of the bubble; 0 and <<>> stand for an absent field.
RoleTypes == {0, 1, 2, 3}

RoleTexts == {<<>>, <<"U", "s", "e", "r">>, <<"A", "I">>, <<"f", "o", "o">>,
              <<"u", "s", "e", "r", " ">>}

AuthorRoleTexts == {<<>>, <<"h", "u", "m", "a", "n">>, <<"B", "o", "t">>,
                    <<"A", "g", "e", "n", "t">>}

SenderTexts == {<<>>, <<"C", "L", "I", "E", "N", "T">>, <<"M", "O", "D", "E", "L">>,
                <<"a", "s", "s", "i", "s", "t", "a", "n", "t">>}

\* The bubble with the fields that are present.
RoleBubble(type, role, authorRole, sender) ==
    LET all == [type |-> type, role |-> role, authorRole |-> authorRole, sender |-> sender]
        has == {f \in {"role", "authorRole", "sender"} : all[f] # <<>>}
               \cup (IF type # 0 THEN {"type"} ELSE {})
    IN  [f \in has |-> all[f]]

RoleInit ==
    /\ InitRun
    /\ pc = "role"
    /\ globalDb = [exists |-> TRUE, readable |-> TRUE, kv |-> <<>>, item |-> NoBlob]
    /\ workspaceDbs = <<>>
    /\ bubbleRows = <<>>
    /\ contexts = <<>>
    /\ terminal = [commands |-> <<>>, dirs |-> <<>>]
    /\ NoMerge /\ NoRender /\ NoName /\ NoLock
    /\ \E type \in RoleTypes, role \in RoleTexts, authorRole \in AuthorRoleTexts,
          sender \in SenderTexts :
        call_bubble = RoleBubble(type, role, authorRole, sender)
    /\ call_actions = <<>>
    /\ call_result = <<>>

\* get_message_role is called on the bubble.
RoleCall ==
    /\ pc = "role"
    /\ call_result' = get_message_role(call_bubble)
    /\ pc' = "role called"
    /\ UNCHANGED <<ctlVars, mergeVars, renderVars, call_bubble, call_actions, nameVars, lockVars>>

RoleSpec == RoleInit /\ [][RoleCall]_vars

\* ------------------------------------------ one call of extract_message_content
DictOne == << <<<<"k">>, <<"v">>>> >>

DictTwo == << <<<<"a">>, <<"1">>>>, <<<<"b">>, <<"2">>>> >>

\* The values of the four fields: [d, v], d telling whether v is a dict; <<>> is
\* an absent field, an empty text or an empty dict.
ContentValues ==
    {[d |-> FALSE, v |-> <<>>], [d |-> FALSE, v |-> <<"h", "i">>],
     [d |-> FALSE, v |-> <<" ", "h", " ", "i", "\n">>], [d |-> FALSE, v |-> <<" ">>],
     [d |-> TRUE, v |-> DictOne]}

TextValues == {[d |-> FALSE, v |-> <<>>], [d |-> FALSE, v |-> <<"t">>], [d |-> TRUE, v |-> <<>>]}

RichTextValues == {[d |-> FALSE, v |-> <<>>], [d |-> FALSE, v |-> <<"r", " ">>]}

MessageValues == {[d |-> FALSE, v |-> <<>>], [d |-> FALSE, v |-> <<"m">>],
                  [d |-> TRUE, v |-> DictTwo]}

\* The bubble with the fields that are present.
ContentBubble(content, text, richText, message) ==
    LET all == [content |-> content, text |-> text, richText |-> richText, message |-> message]
        has == {f \in DOMAIN all : all[f].v # <<>> \/ all[f].d}
    IN  [f \in has \cup {"dictFields"} |->
            IF f = "dictFields" THEN {g \in has : all[g].d} ELSE all[f].v]

ContentInit ==
    /\ InitRun
    /\ pc = "content"
    /\ globalDb = [exists |-> TRUE, readable |-> TRUE, kv |-> <<>>, item |-> NoBlob]
    /\ workspaceDbs = <<>>
    /\ bubbleRows = <<>>
    /\ contexts = <<>>
    /\ terminal = [commands |-> <<>>, dirs |-> <<>>]
    /\ NoMerge /\ NoRender /\ NoName /\ NoLock
    /\ \E content \in ContentValues, text \in TextValues, richText \in RichTextValues,
          message \in MessageValues :
        call_bubble = ContentBubble(content, text, richText, message)
    /\ call_actions = <<>>
    /\ call_result = <<>>

\* extract_message_content is called on the bubble.
ContentCall ==
    /\ pc = "content"
    /\ call_result' = extract_message_content(call_bubble)
    /\ pc' = "content called"
    /\ UNCHANGED <<ctlVars, mergeVars, renderVars, call_bubble, call_actions, nameVars, lockVars>>

ContentSpec == ContentInit /\ [][ContentCall]_vars

\* ------------------------------------------------ one call of get_bubbles_batch
MaxRows == 3

\* The values of a bubble row: a bubble without createdAt, one created at 60000,
\* one created at 120000, NULL, text that is not JSON, and a JSON array.  n tells
\* the bubbles apart.
RowBlobs(n) ==
    {Obj([n |-> n]), Obj([n |-> n, createdAt |-> 60000]), Obj([n |-> n, createdAt |-> 120000])}
    \cup BadBlobs

\* The row at place n of the scan: a bubble row of CidA or CidB, or a row whose
\* key has no second colon.
BatchRowsAt(n) ==
    {[rest |-> BubbleKey(c, n), blob |-> b] : c \in {CidA, CidB}, b \in RowBlobs(n)}
    \cup {[rest |-> <<"x", ToString(n)>>, blob |-> Obj([n |-> n])]}

BatchTables ==
    UNION {{t \in [1..len -> UNION {BatchRowsAt(n) : n \in 1..len}] :
               \A n \in 1..len : t[n] \in BatchRowsAt(n)} : len \in 0..MaxRows}

BatchInit ==
    /\ InitRun
    /\ pc = "batch"
    /\ globalDb = [exists |-> TRUE, readable |-> TRUE, kv |-> <<>>, item |-> NoBlob]
    /\ workspaceDbs = <<>>
    /\ bubbleRows \in BatchTables
    /\ contexts = <<>>
    /\ terminal = [commands |-> <<>>, dirs |-> <<>>]
    /\ NoMerge /\ NoRender /\ NoExtract /\ NoName /\ NoLock

\* get_bubbles_batch is called on the table for a set of thread ids.
BatchCall ==
    /\ pc = "batch"
    /\ \E cids \in SUBSET {CidA, CidB} : cid_set' = cids
    /\ IF BatchRaises(bubbleRows)
       THEN pc' = "raised" /\ UNCHANGED bubbles_by_cid
       ELSE pc' = "batched" /\ bubbles_by_cid' = get_bubbles_batch(bubbleRows, cid_set')
    /\ UNCHANGED callVars
    /\ UNCHANGED <<now, storeVars, outdir, runs, edits, faults, min_timestamp_ms, existing_by_cid,
                   needs_export, i, cid_short, exported_count, file_path, markdown_content,
                   up_to_date, written, written_before, write_failed, write_errors,
                   dir_at_start, repeat, after_crash, unchanged>>

BatchSpec == BatchInit /\ [][BatchCall]_vars

\* ------------------------------------------------ one call of generate_filename
\* Thread ids of 3, 7, 8 and 10 characters.
NameCids == {<<"a", "b", "c">>, Take(CidA, 7), Take(CidA, 8), CidA}

\* The name of the thread: none, plain, with a blank, with a dash at its end, and
\* one that slugifies to nothing.
NameTitles == {<<>>, <<"t", "1">>, <<"a", " ", "b">>, <<"t", "-">>, <<"?">>}

NameThreads ==
    {[createdAt |-> 60000]} \cup {[name |-> t] : t \in NameTitles \ {<<>>}}
    \cup {[createdAt |-> 60000, name |-> t] : t \in NameTitles}

FirstMessages == {<<"h", "i">>, <<"x", "/", "y">>}

NameInit ==
    /\ InitRun
    /\ pc = "name"
    /\ globalDb = [exists |-> TRUE, readable |-> TRUE, kv |-> <<>>, item |-> NoBlob]
    /\ workspaceDbs = <<>>
    /\ bubbleRows = <<>>
    /\ contexts = <<>>
    /\ terminal = [commands |-> <<>>, dirs |-> <<>>]
    /\ NoMerge /\ NoRender /\ NoExtract /\ NoLock
    /\ name_call \in [thread_data : NameThreads, cid : NameCids, first_message : FirstMessages]
    /\ name_stem = <<>>

\* generate_filename is called; the stem is the name without '.md'.
NameFile ==
    /\ pc = "name"
    /\ name_stem' = generate_filename(name_call.thread_data, name_call.cid,
                                      name_call.first_message)
    /\ pc' = "named"
    /\ UNCHANGED <<ctlVars, mergeVars, renderVars, extractVars, name_call, lockVars>>

NameSpec == NameInit /\ [][NameFile]_vars

\* ------------------------------------------------- the lock of the main block
(***************************************************************************)
(* Processes of the program run side by side.  Each opens LOCK_FILE, asks  *)
(* for the exclusive lock without blocking, and either runs main() and the *)
(* line for the cron log or prints its message and exits with status 0.    *)
(* The lock goes with the open file: it is held until the process ends.    *)
(* ppc[p] is "off" (no process), "opened" (LOCK_FILE is open), "pass"      *)
(* (inside main()), "log" (main() returned) or "refused" (exited on the    *)
(* OSError of flock).                                                      *)
(***************************************************************************)
MaxProcs == 2

MaxLaunches == 4

MaxFiles == 2

Procs == 1..MaxProcs

LockInit ==
    /\ InitRun
    /\ pc = "lock"
    /\ globalDb = [exists |-> TRUE, readable |-> TRUE, kv |-> <<>>, item |-> NoBlob]
    /\ workspaceDbs = <<>>
    /\ bubbleRows = <<>>
    /\ contexts = <<>>
    /\ terminal = [commands |-> <<>>, dirs |-> <<>>]
    /\ NoMerge /\ NoRender /\ NoExtract /\ NoName
    /\ lock_owner = 0
    /\ ppc = [p \in Procs |-> "off"]
    /\ wrote = [p \in Procs |-> 0]
    /\ launches = 0

\* What the steps of the processes leave alone.
LockFrame == UNCHANGED <<ctlVars, pc, mergeVars, renderVars, extractVars, nameVars>>

\* _lock_fd = open(LOCK_FILE, 'w'): a process starts.
OpenLock(p) ==
    /\ ppc[p] \in {"off", "refused"}
    /\ launches < MaxLaunches
    /\ launches' = launches + 1
    /\ ppc' = [ppc EXCEPT ![p] = "opened"]
    /\ wrote' = [wrote EXCEPT ![p] = 0]
    /\ UNCHANGED lock_owner
    /\ LockFrame

\* A lock request that is granted whoever holds the lock.
FlockAlwaysGranted(p) == TRUE

\* fcntl.flock(_lock_fd, LOCK_EX | LOCK_NB) returns: no other open file holds the lock
FlockGranted(p) == lock_owner = 0

\* The lock is granted and main() is entered.
TakeLock(p) ==
    /\ ppc[p] = "opened"
    /\ FlockGranted(p)
    /\ lock_owner' = p
    /\ ppc' = [ppc EXCEPT ![p] = "pass"]
    /\ UNCHANGED <<wrote, launches>>
    /\ LockFrame

\* flock raises OSError: the message is printed and sys.exit(0) ends the process.
LockRefused(p) ==
    /\ ppc[p] = "opened"
    /\ ~FlockGranted(p)
    /\ ppc' = [ppc EXCEPT ![p] = "refused"]
    /\ UNCHANGED <<lock_owner, wrote, launches>>
    /\ LockFrame

\* The export pass writes an output file.
WriteOutput(p) ==
    /\ ppc[p] = "pass"
    /\ wrote[p] < MaxFiles
    /\ wrote' = [wrote EXCEPT ![p] = wrote[p] + 1]
    /\ UNCHANGED <<lock_owner, ppc, launches>>
    /\ LockFrame

\* main() returns.
PassEnds(p) ==
    /\ ppc[p] = "pass"
    /\ ppc' = [ppc EXCEPT ![p] = "log"]
    /\ UNCHANGED <<lock_owner, wrote, launches>>
    /\ LockFrame

\* The process ends, after the line for the cron log or killed before: its open
\* file is closed and with it the lock it held.
ProcessEnds(p) ==
    /\ ppc[p] \in {"pass", "log"}
    /\ ppc' = [ppc EXCEPT ![p] = "off"]
    /\ lock_owner' = IF lock_owner = p THEN 0 ELSE lock_owner
    /\ UNCHANGED <<wrote, launches>>
    /\ LockFrame

LockNext ==
    \E p \in Procs :
        \/ OpenLock(p)
        \/ TakeLock(p)
        \/ LockRefused(p)
        \/ WriteOutput(p)
        \/ PassEnds(p)
        \/ ProcessEnds(p)

LockSpec == LockInit /\ [][LockNext]_vars

\* -------------------------------------------------------------- properties
\* The threads the current invocation partitions: reconstructed and filtered.
RunThreads ==
    FilterThreads(get_all_composer_threads(globalDb, workspaceDbs), min_timestamp_ms)

\* The bubbles get_bubbles_batch returns for one thread.
ThreadBubbles(cid) == Get(get_bubbles_batch(bubbleRows, {cid}), cid, <<>>)

\* The values of the clock.
Clock == {k * 60000 : k \in 1..MaxTick}

\* content is the document format_conversation_markdown makes of the thread at
\* some time.
IsRenderingOf(content, cid, thread_data) ==
    \E at \in Clock :
        content = format_conversation_markdown(thread_data, cid, ThreadBubbles(cid),
                                               contexts, at)

\* Some message of the thread has content.
HasContent(cid) ==
    \E k \in DOMAIN ThreadBubbles(cid) : extract_message_content(ThreadBubbles(cid)[k]) # <<>>

\* C1: when an invocation has completed and a second one runs against the
\* unchanged store and the directory the first left, the second writes no thread
\* document, classifies every thread the first exported as up to date, and
\* leaves every document with the bytes it had.
C1_SecondRunChangesNothing ==
    (pc = "done" /\ repeat) =>
        /\ written = {}
        /\ \A w \in written_before : w[1] \in up_to_date
        /\ DOMAIN outdir = DOMAIN dir_at_start
        /\ \A f \in DOMAIN dir_at_start : outdir[f].content = dir_at_start[f].content

C3_UpToDateLeftAlone ==
    faults = 0 =>
        /\ \A cid \in up_to_date :
            /\ cid \notin cid_set
            /\ \A w \in written : w[1] # cid
            /\ \A f \in DOMAIN dir_at_start :
                   LastN(f, 8) = Take(cid, 8) =>
                       (f \in DOMAIN outdir /\ outdir[f] = dir_at_start[f])
        /\ (pc \in {"loop", "write"}) =>
            \A k \in DOMAIN RunThreads :
                (\E f \in DOMAIN dir_at_start :
                    /\ LastN(f, 8) = Take(RunThreads[k][1], 8)
                    /\ dir_at_start[f].mtime > ThreadUpdatedMs(RunThreads[k][2]))
                => RunThreads[k][1] \in up_to_date

\* C5: when an invocation was interrupted and the next one has completed against
\* the unchanged store, every file that held a document when the second started
\* still holds one, and every thread that passes the filter and has a message
\* with content has a file holding its complete rendering.
C5_CompleteAfterInterruption ==
    (pc = "done" /\ after_crash /\ unchanged /\ ~write_failed) =>
        /\ \A f \in DOMAIN dir_at_start :
               dir_at_start[f].content # <<>> => (f \in DOMAIN outdir /\ outdir[f].content # <<>>)
        /\ \A k \in DOMAIN RunThreads :
               HasContent(RunThreads[k][1]) =>
                   \E f \in DOMAIN outdir :
                       IsRenderingOf(outdir[f].content, RunThreads[k][1], RunThreads[k][2])

\* C6: after an invocation that completes without a failed write, every thread
\* that passes the filter and has a message with content has a document rendered
\* from that thread in the directory, whatever the ids of the threads are.
\* Stated for histories in which no write failed and no invocation was
\* interrupted.
C6_EveryThreadHasItsDocument ==
    (pc = "done" /\ unchanged /\ faults = 0) =>
        \A k \in DOMAIN RunThreads :
            HasContent(RunThreads[k][1]) =>
                \E f \in DOMAIN outdir :
                    IsRenderingOf(outdir[f].content, RunThreads[k][1], RunThreads[k][2])

\* C7: the directory never holds two thread documents with the same fingerprint,
\* and a thread that is exported again is written to the path of its export
\* before.  Stated for histories in which no write failed and no invocation was
\* interrupted.
C7_OneDocumentPerFingerprint ==
    faults = 0 =>
        /\ \A f, g \in DOMAIN outdir \ {TerminalStem} : LastN(f, 8) = LastN(g, 8) => f = g
        /\ \A w \in written, v \in written_before : w[1] = v[1] => w[2] = v[2]

\* C8 as stated: a file is written only for a thread that has a message and
\* whose first message, in timestamp order, has content.
C8_FirstMessageHasContent ==
    unchanged =>
        \A w \in written :
            /\ ThreadBubbles(w[1]) # <<>>
            /\ extract_message_content(ThreadBubbles(w[1])[1]) # <<>>

\* C8, amended: a needs-export thread that has no message, or none of whose
\* messages has content after trimming, is skipped: no file is written for it
\* in that invocation.
C8_SomeMessageHasContent ==
    unchanged =>
        \A k \in DOMAIN needs_export :
            ~HasContent(needs_export[k][1]) =>
                /\ \A w \in written : w[1] # needs_export[k][1]
                /\ (pc = "write" => i # k)

\* The loop has passed a needs-export thread that has messages, all of them
\* without content, and one that has no message, and wrote a file for neither.
C8_Witness ==
    /\ pc = "done" /\ unchanged
    /\ \E k \in DOMAIN needs_export :
        /\ ThreadBubbles(needs_export[k][1]) # <<>>
        /\ ~HasContent(needs_export[k][1])
        /\ \A w \in written : w[1] # needs_export[k][1]
    /\ \E k \in DOMAIN needs_export :
        /\ ThreadBubbles(needs_export[k][1]) = <<>>
        /\ \A w \in written : w[1] # needs_export[k][1]

\* All the records the stores hold, in scan order, as (cid, data).
AllRecords ==
    (IF globalDb.exists /\ globalDb.readable THEN get_composer_threads(globalDb) ELSE <<>>)
    \o FlatMap(get_composer_threads, workspaceDbs)

Stamp(thread_data) == Get(thread_data, "lastUpdatedAt", 0)

\* C4: the data get_all_composer_threads returns for a thread id is a record
\* whose lastUpdatedAt, 0 when absent, is the greatest among all the records
\* with that id in the global store (both representations) and the workspace
\* stores; and every id that has a record is returned once.
C4_NewestRecordWins ==
    pc = "merged" =>
        /\ \A k \in DOMAIN all_threads :
               \A r \in DOMAIN AllRecords :
                   AllRecords[r][1] = all_threads[k][1] =>
                       Stamp(all_threads[k][2]) >= Stamp(AllRecords[r][2])
        /\ \A r \in DOMAIN AllRecords :
               Cardinality({k \in DOMAIN all_threads :
                               all_threads[k][1] = AllRecords[r][1]}) = 1

\* Without(s, k): the sequence s without its element k.
Without(s, k) == [j \in 1..(Len(s) - 1) |-> IF j < k THEN s[j] ELSE s[j + 1]]

\* The text of tagged lines.
LinesOf(body) == [k \in DOMAIN body |-> body[k].line]

\* The arrays of a bubble the renderer and the action formatter report.
AuxiliaryArrays ==
    {"gitDiffs", "commits", "pullRequests", "lints", "approximateLintErrors",
     "multiFileLinterErrors", "humanChanges", "attachedFolders", "attachedFoldersNew",
     "recentlyViewedFiles", "images", "aiWebSearchResults", "docsReferences",
     "webReferences", "contextPieces"}

\* A bubble with no content, no tool invocation, no thinking text, no auxiliary
\* array and no message-context record.
IsBare(bubble) ==
    /\ extract_message_content(bubble) = <<>>
    /\ "toolFormerData" \notin DOMAIN bubble
    /\ extract_thinking_content(bubble) = <<>>
    /\ \A a \in AuxiliaryArrays : Get(bubble, a, <<>>) = <<>>
    /\ BubbleContextData(contexts, CidA, bubble) = NoObj

\* The bubbles before which the document has a separator.
SeparatorsOf(body) == {body[l].src : l \in {x \in DOMAIN body : body[x].kind = "sep"}}

\* The bubble at k gives the document no line.
GivesNoLine(k) == \A l \in DOMAIN md_lines : md_lines[l].src # k

\* The separators stand before the same bubbles as in the document of the
\* thread without the bubble at k.
KeepsSeparators(k) ==
    {IF src > k THEN src - 1 ELSE src : src \in SeparatorsOf(md_lines)}
        = SeparatorsOf(RenderBody(contexts, CidA, Without(thread_bubbles, k)))

\* The bubble at k stands directly between two bubbles that have actions and no
\* content: the look-ahead of an [Actions] block may stop at it.
SplitsActions(k) ==
    /\ 1 < k /\ k < Len(thread_bubbles)
    /\ \A j \in {k - 1, k + 1} :
        /\ extract_message_content(thread_bubbles[j]) = <<>>
        /\ extract_intermediate_actions(thread_bubbles[j]) # <<>>

OnlyActions(bubble) ==
    /\ extract_message_content(bubble) = <<>>
    /\ extract_intermediate_actions(bubble) # <<>>
    /\ ContextInfo(contexts, CidA, bubble) = <<>>
    /\ extract_thinking_content(bubble) = <<>>

\* a..b is a maximal run of two or more action-only bubbles.
IsActionRun(a, b) ==
    /\ a < b
    /\ \A k \in a..b : OnlyActions(thread_bubbles[k])
    /\ a = 1 \/ ~OnlyActions(thread_bubbles[a - 1])
    /\ b = Len(thread_bubbles) \/ ~OnlyActions(thread_bubbles[b + 1])

\* The action lines of the bubbles a..b, in bubble order.
RECURSIVE RunLines(_, _)
RunLines(a, b) ==
    IF a > b THEN <<>>
    ELSE FlatMap(ActionItem, extract_intermediate_actions(thread_bubbles[a]))
         \o RunLines(a + 1, b)

\* C10: for every maximal run of two or more action-only bubbles the document
\* has one [Actions] heading whose block holds the action lines of the bubbles of
\* the run, one after the other in bubble order, and no action line of the run
\* and no heading of the run is anywhere else.
C10_RunIsOneBlock ==
    pc = "rendered" =>
        \A a, b \in DOMAIN thread_bubbles :
            IsActionRun(a, b) =>
                \E h, p \in DOMAIN md_lines :
                    LET n == Len(RunLines(a, b)) IN
                    /\ md_lines[h].kind = "heading" /\ h < p
                    /\ \A l \in (h + 1)..(p - 1) : md_lines[l].kind = "action"
                    /\ p + n - 1 <= Len(md_lines)
                    /\ [l \in 1..n |-> md_lines[p - 1 + l].line] = RunLines(a, b)
                    /\ \A l \in p..(p + n - 1) :
                           md_lines[l].kind = "action" /\ md_lines[l].src \in a..b
                    /\ \A l \in DOMAIN md_lines :
                           (md_lines[l].src \in a..b /\ md_lines[l].kind = "action")
                               => l \in p..(p + n - 1)
                    /\ \A l \in DOMAIN md_lines :
                           (md_lines[l].src \in a..b /\ md_lines[l].kind = "heading") => l = h

\* A run of two action-only bubbles with different tools follows a user message,
\* and a run follows a bubble whose actions the block before it took in.
C10_Witness ==
    /\ pc = "rendered"
    /\ Len(thread_bubbles) = MaxBubbles
    /\ \/ /\ IsActionRun(2, 3)
          /\ extract_message_content(thread_bubbles[1]) # <<>>
          /\ RunLines(2, 2) # RunLines(3, 3)
          /\ extract_message_content(thread_bubbles[4]) # <<>>
       \/ /\ IsActionRun(3, 4)
          /\ OnlyActions(thread_bubbles[1])
          /\ "gitDiffs" \in DOMAIN thread_bubbles[2]

\* The bubbles that give the document a line: those the loop does not skip.
EmittedBubbles == {md_lines[l].src : l \in DOMAIN md_lines}

\* k and m are emitted one after the other: no emitted bubble lies between.
EmittedNext(k, m) ==
    /\ k \in EmittedBubbles /\ m \in EmittedBubbles /\ k < m
    /\ \A x \in EmittedBubbles : ~(k < x /\ x < m)

\* The number of separator rules the document has before bubble m.
SeparatorsBefore(m) ==
    Cardinality({l \in DOMAIN md_lines :
                    /\ md_lines[l].kind = "sep"
                    /\ md_lines[l].line = <<"---">>
                    /\ md_lines[l].src = m})

\* C11: of two bubbles emitted one after the other, the second has no separator
\* before it when both have the same resolved role (get_message_role), and has
\* exactly one when the first resolves to user and the second to assistant;
\* bubbles that have only actions are bubbles like the others.
C11_SeparatorFollowsResolvedRole ==
    pc = "rendered" =>
        \A k, m \in DOMAIN thread_bubbles :
            EmittedNext(k, m) =>
                LET before == get_message_role(thread_bubbles[k])
                    after  == get_message_role(thread_bubbles[m])
                IN  /\ before = after => SeparatorsBefore(m) = 0
                    /\ (before = "user" /\ after = "assistant") => SeparatorsBefore(m) = 1

\* The tool invocation of the call.
CallTool == call_bubble.toolFormerData

\* Neither rawArgs nor params gives the invocation arguments: each is missing or
\* is text that does not parse.
ArgsUnavailable(tfd) ==
    /\ PayloadKind(tfd, "rawArgs") \in {"null", "bad"}
    /\ PayloadKind(tfd, "params") \in {"null", "bad"}

\* C12: whatever the tool, when the arguments payload is missing or does not
\* parse, the action list the call returns has a line that says
\* "(args unavailable)".
C12_UnavailableArgsAreSaid ==
    (pc = "extracted" /\ ArgsUnavailable(CallTool) /\ ~call_actions.raised) =>
        \E k \in DOMAIN call_actions.lines :
            "(args unavailable)" \in Range(call_actions.lines[k])

\* C13: the call returns a list of lines, whatever the arguments payload and the
\* result payload are: missing, unparsable, not text, or a JSON value that is
\* not an object.
C13_FormattingNeverRaises ==
    pc = "extracted" => ~call_actions.raised

\* C14: for a write with a file path and contents, the lines are the path line,
\* the line with the count n of the lines of the contents, and after at most a
\* heading the n lines of the contents, in order, whole, each after the same
\* prefix, and nothing after them.
C14_WriteShowsEveryLine ==
    (/\ pc = "extracted" /\ ~call_actions.raised
     /\ CallTool.name = <<"write">>
     /\ Get(ToolArgs(CallTool), "file_path", <<>>) # <<>>
     /\ Get(ToolArgs(CallTool), "contents", <<>>) # <<>>) =>
        LET lines    == call_actions.lines
            contents == SplitLines(ToolArgs(CallTool).contents)
            n        == Len(contents)
        IN  /\ Len(lines) >= 2
            /\ lines[1] = <<"Write file: ">> \o ToolArgs(CallTool).file_path
            /\ lines[2] = <<"   -> ", ToString(n), " lines written">>
            /\ \E p \in {2, 3}, prefix \in {"   | "} :
                /\ Len(lines) = p + n
                /\ \A k \in 1..n : lines[p + k] = <<prefix>> \o contents[k]

\* C15: two calls of format_conversation_markdown on the same thread data, the
\* same bubbles and the same context records return the same string, whenever
\* they are made.
C15_SameArgumentsSameDocument ==
    pc = "rendered twice" => md_again = md_text

\* ------------------------------------------------------------------ C16
ErrorCids == {e[1] : e \in write_errors}

WrittenCids == {w[1] : w \in written}

\* The threads of the export loop that have content.
ContentThreads ==
    {k \in DOMAIN needs_export :
        FirstContent(Get(bubbles_by_cid, needs_export[k][1], <<>>)) # <<>>}

\* C16: a failure to write one thread's document is reported for that thread and
\* costs that thread only: every thread with content that the loop has passed
\* either was written or has its error message, each error message names a thread
\* of the loop and the file it was to be written to, and an invocation that
\* returns has passed every thread.
C16_WriteFailureSkipsOneThread ==
    /\ \A k \in ContentThreads :
        k < i => needs_export[k][1] \in WrittenCids \cup ErrorCids
    /\ \A e \in write_errors :
        \E k \in ContentThreads :
            /\ needs_export[k][1] = e[1]
            /\ e[2] = generate_filename(needs_export[k][2], e[1],
                          FirstContent(Get(bubbles_by_cid, e[1], <<>>)))
    /\ pc = "done" => i > Len(needs_export)

\* The invocation returned after the write of one thread failed and the thread
\* after it in the loop was written.
C16_Witness ==
    /\ pc = "done"
    /\ \E k \in ContentThreads, m \in ContentThreads :
        /\ k < m
        /\ needs_export[k][1] \in ErrorCids \ WrittenCids
        /\ needs_export[m][1] \in WrittenCids \ ErrorCids

\* ------------------------------------------------------------------ C17
AllKvRows ==
    Range(globalDb.kv) \cup UNION {Range(workspaceDbs[k].kv) : k \in DOMAIN workspaceDbs}

\* Every row of the store holds what it should: a record, a bubble, and tool
\* payloads the formatter reads.
RowsSound ==
    /\ \A r \in AllKvRows : r.blob.t = "obj"
    /\ \A k \in DOMAIN bubbleRows :
        /\ bubbleRows[k].blob.t = "obj"
        /\ ~ActionsRaise(bubbleRows[k].blob.v)

SomeInstanceReadable ==
    \/ globalDb.exists /\ globalDb.readable
    \/ \E k \in DOMAIN workspaceDbs : workspaceDbs[k].exists /\ workspaceDbs[k].readable

\* C17: a store instance that is absent, unreadable or corrupt does not end the
\* run: with sound rows in the instances that can be read, no invocation dies of
\* an exception, and one ends early with the diagnostic only when no instance at
\* all is readable.
C17_DamagedInstanceIsSkipped ==
    RowsSound =>
        /\ pc # "raised"
        /\ pc = "nostore" => ~SomeInstanceReadable

\* ------------------------------------------------------------------ C18
\* A store instance without its rows that are no record.
CleanDb(db) == [db EXCEPT !.kv = SelectSeq(db.kv, LAMBDA r : r.blob.t = "obj")]

\* The bubble rows without those that are no bubble.
CleanRows == SelectSeq(bubbleRows, LAMBDA r : r.blob.t = "obj")

\* The threads of the invocation, had the malformed rows not been in the store.
CleanThreads ==
    FilterThreads(get_all_composer_threads(
                      CleanDb(globalDb),
                      [k \in DOMAIN workspaceDbs |-> CleanDb(workspaceDbs[k])]),
                  min_timestamp_ms)

\* C18: a row whose value is null, is not JSON or is JSON but no object is left
\* out and nothing else changes: with the global database readable and tool
\* payloads the formatter reads, no invocation dies of an exception, and the
\* threads and bubbles of the export loop are those of the store without the
\* malformed rows.
C18_MalformedRowIsExcluded ==
    (/\ globalDb.exists /\ globalDb.readable
     /\ \A k \in DOMAIN bubbleRows :
         bubbleRows[k].blob.t = "obj" => ~ActionsRaise(bubbleRows[k].blob.v)) =>
        /\ pc # "raised"
        /\ pc \in {"loop", "write"} =>
            /\ {CleanThreads[k][1] : k \in DOMAIN CleanThreads} = cid_set \cup up_to_date
            /\ \A k \in DOMAIN needs_export : needs_export[k] \in Range(CleanThreads)
            /\ bubbles_by_cid = get_bubbles_batch(CleanRows, cid_set)

\* ------------------------------------------------------------------ C19
\* C19: the file name leads back to the thread: the last 8 characters of the
\* stem, which the controller reads as the fingerprint of the file, are the
\* first 8 characters of the thread id, which it looks up in the index.
C19_NameLeadsBackToThread ==
    pc = "named" => LastN(name_stem, 8) = Take(name_call.cid, 8)

\* ------------------------------------------------------------------ C20
\* C20: two processes are never inside the export pass together, a process that
\* is refused the lock has written no output file, and the step of a process
\* that asks for the lock while another holds it is its exit: it neither waits
\* nor asks again, and leaves the refused state only as a new process.
C20_OnePassAtATime ==
    /\ [](\A p \in Procs, q \in Procs :
            (p # q /\ ppc[p] \in {"pass", "log"}) => ppc[q] \notin {"pass", "log"})
    /\ [](\A p \in Procs : ppc[p] = "refused" => wrote[p] = 0)
    /\ [][\A p \in Procs :
            /\ (ppc[p] = "opened" /\ lock_owner \notin {0, p} /\ ppc'[p] # "opened")
                   => (ppc'[p] = "refused" /\ wrote'[p] = 0)
            /\ (ppc[p] = "refused" /\ ppc'[p] # "refused")
                   => (ppc'[p] = "opened" /\ launches' = launches + 1)]_vars

\* One process is in the export pass and has written a file; the other asked for
\* the lock meanwhile and has exited.
C20_Witness ==
    \E p \in Procs, q \in Procs :
        /\ ppc[p] = "pass" /\ lock_owner = p /\ wrote[p] > 0
        /\ ppc[q] = "refused"

\* ------------------------------------------------------------------ C21
\* The stem of the timeline document generate_file_modification_timeline writes.
TimelineStem == <<"f", "i", "l", "e", "-", "m", "o", "d", "i", "f", "i", "c", "a", "t", "i",
                  "o", "n", "-", "t", "i", "m", "e", "l", "i", "n", "e">>

\* C21: an invocation that completes has left both aggregate documents in the
\* output directory, the file-modification timeline and the terminal history.
C21_BothAggregatesWritten ==
    pc = "done" => (TimelineStem \in DOMAIN outdir /\ TerminalStem \in DOMAIN outdir)

\* ------------------------------------------------------------------ C22
\* The thread ids in the order the stores give them: the global store, then the
\* workspace stores.
RECURSIVE DiscoveredIn(_)
DiscoveredIn(dbs) ==
    IF dbs = <<>> THEN <<>>
    ELSE get_composer_threads(Head(dbs)) \o DiscoveredIn(Tail(dbs))

Discovered == DiscoveredIn(<<globalDb>> \o workspaceDbs)

FirstSeen(cid) ==
    CHOOSE k \in DOMAIN Discovered :
        /\ Discovered[k][1] = cid
        /\ \A j \in 1..(k - 1) : Discovered[j][1] # cid

\* C22: the threads come newest first, an absent createdAt counting as 0, each
\* discovered thread once, and threads created at the same time in the order
\* in which their ids were first discovered.
C22_NewestFirstStable ==
    pc = "merged" =>
        /\ {all_threads[k][1] : k \in DOMAIN all_threads}
               = {Discovered[k][1] : k \in DOMAIN Discovered}
        /\ \A k \in DOMAIN all_threads, m \in DOMAIN all_threads :
            k < m =>
                /\ all_threads[k][1] # all_threads[m][1]
                /\ Get(all_threads[k][2], "createdAt", 0) >= Get(all_threads[m][2], "createdAt", 0)
                /\ Get(all_threads[k][2], "createdAt", 0) = Get(all_threads[m][2], "createdAt", 0)
                       => FirstSeen(all_threads[k][1]) < FirstSeen(all_threads[m][1])

\* Three threads were merged: two created at the same time, and one created
\* later than a thread discovered before it, which the sort has moved up.
C22_Witness ==
    /\ pc = "merged"
    /\ Len(all_threads) = 3
    /\ \E k \in DOMAIN all_threads, m \in DOMAIN all_threads :
        /\ k < m
        /\ Get(all_threads[k][2], "createdAt", 0) = Get(all_threads[m][2], "createdAt", 0)
    /\ \E k \in DOMAIN all_threads, m \in DOMAIN all_threads :
        /\ k < m
        /\ Get(all_threads[k][2], "createdAt", 0) > Get(all_threads[m][2], "createdAt", 0)
        /\ FirstSeen(all_threads[k][1]) > FirstSeen(all_threads[m][1])

\* ------------------------------------------------------------------ C23
\* The rows of thread c that parse, by their place in the scan.
ParseableRowsOf(c) ==
    {k \in DOMAIN bubbleRows :
        /\ FindColon(bubbleRows[k].rest) # 0
        /\ RowCid(bubbleRows[k]) = c
        /\ bubbleRows[k].blob.t \in {"obj", "arr"}}

\* Row k comes before row m: it is older, or as old and scanned first.
RowBefore(k, m) ==
    \/ BubbleCreatedAt(bubbleRows[k]) < BubbleCreatedAt(bubbleRows[m])
    \/ BubbleCreatedAt(bubbleRows[k]) = BubbleCreatedAt(bubbleRows[m]) /\ k < m

\* The place of row k in the list of its thread.
RowRank(c, k) == 1 + Cardinality({m \in ParseableRowsOf(c) : RowBefore(m, k)})

\* C23: the call returns, and for every thread id asked for it gives exactly the
\* rows of that thread that parse, oldest first, rows of the same time in scan
\* order; ids that were not asked for, or have no such row, have no entry.
C23_BatchGivesEachThreadItsRows ==
    pc \in {"batched", "raised"} =>
        /\ pc = "batched"
        /\ DOMAIN bubbles_by_cid = {c \in cid_set : ParseableRowsOf(c) # {}}
        /\ \A c \in DOMAIN bubbles_by_cid :
            /\ Len(bubbles_by_cid[c]) = Cardinality(ParseableRowsOf(c))
            /\ \A k \in ParseableRowsOf(c) :
                bubbles_by_cid[c][RowRank(c, k)] = Loaded(bubbleRows[k].blob)

\* ------------------------------------------------------------------ C24
\* The capital of each letter of the role tokens.
Capital(c) ==
    CASE c = "u" -> "U" [] c = "s" -> "S" [] c = "e" -> "E" [] c = "r" -> "R"
      [] c = "h" -> "H" [] c = "m" -> "M" [] c = "a" -> "A" [] c = "n" -> "N"
      [] c = "c" -> "C" [] c = "l" -> "L" [] c = "i" -> "I" [] c = "t" -> "T"
      [] c = "g" -> "G" [] c = "b" -> "B" [] c = "o" -> "O" [] c = "d" -> "D"
      [] OTHER -> c

\* text is token, but for the case of its letters
IsTokenIgnoringCase(text, token) ==
    /\ Len(text) = Len(token)
    /\ \A k \in DOMAIN token : text[k] \in {token[k], Capital(token[k])}

\* The string the role is read from: the first of role, authorRole, sender that
\* is there and not empty.
RoleString(b) ==
    IF Get(b, "role", <<>>) # <<>> THEN b.role
    ELSE IF Get(b, "authorRole", <<>>) # <<>> THEN b.authorRole
    ELSE Get(b, "sender", <<>>)

\* C24: the role is 'user' for type 1 and 'assistant' for type 2; otherwise it is
\* 'user' or 'assistant' when the role string is, case apart, one of the user
\* tokens (user, human, client) or of the assistant tokens (assistant, ai, agent,
\* bot, model), and 'unknown' in every other case.
C24_RoleResolution ==
    pc = "role called" =>
        LET type == Get(call_bubble, "type", 0)
            role == RoleString(call_bubble)
            userLike == \E t \in {<<"u", "s", "e", "r">>, <<"h", "u", "m", "a", "n">>,
                                  <<"c", "l", "i", "e", "n", "t">>} :
                            IsTokenIgnoringCase(role, t)
            assistantLike == \E t \in {<<"a", "s", "s", "i", "s", "t", "a", "n", "t">>,
                                       <<"a", "i">>, <<"a", "g", "e", "n", "t">>,
                                       <<"b", "o", "t">>, <<"m", "o", "d", "e", "l">>} :
                                 IsTokenIgnoringCase(role, t)
        IN  call_result = (IF type = 1 THEN "user"
                           ELSE IF type = 2 THEN "assistant"
                           ELSE IF userLike THEN "user"
                           ELSE IF assistantLike THEN "assistant"
                           ELSE "unknown")

\* A bubble of type 3 whose sender, in capitals, is an assistant token, the two
\* other strings being absent, resolved to 'assistant'.
C24_Witness ==
    /\ pc = "role called"
    /\ Get(call_bubble, "type", 0) = 3
    /\ DOMAIN call_bubble = {"type", "sender"}
    /\ call_bubble.sender = <<"M", "O", "D", "E", "L">>
    /\ call_result = "assistant"

\* ------------------------------------------------------------------ C25
ContentOrder == <<"content", "text", "richText", "message">>

\* The place in ContentOrder of the first field with a non-empty value, 0 when
\* the four are absent or empty.
FirstNonEmpty(b) ==
    IF \A k \in 1..4 : Get(b, ContentOrder[k], <<>>) = <<>> THEN 0
    ELSE CHOOSE k \in 1..4 :
            /\ Get(b, ContentOrder[k], <<>>) # <<>>
            /\ \A j \in 1..(k - 1) : Get(b, ContentOrder[j], <<>>) = <<>>

\* out is text without the white space at its two ends.
IsTrimmed(out, text) ==
    \E lead \in 0..Len(text) :
        /\ \A k \in 1..lead : IsSpace(text[k])
        /\ lead + Len(out) <= Len(text)
        /\ \A k \in DOMAIN out : out[k] = text[lead + k]
        /\ \A k \in (lead + Len(out) + 1)..Len(text) : IsSpace(text[k])
        /\ out # <<>> => (~IsSpace(out[1]) /\ ~IsSpace(out[Len(out)]))

\* C25: the content is the empty string when the four fields are absent or
\* empty; otherwise it comes from the first of content, text, richText, message
\* that is not empty: its serialization over indented lines when that value is a
\* dict, the value without the white space at its ends when it is a text.
C25_FirstNonEmptyField ==
    pc = "content called" =>
        LET k == FirstNonEmpty(call_bubble)
            value == call_bubble[ContentOrder[k]]
        IN  IF k = 0 THEN call_result = <<>>
            ELSE IF ContentOrder[k] \notin call_bubble.dictFields
                 THEN IsTrimmed(call_result, value)
            ELSE IF value = DictOne
                 THEN call_result = <<"{", "\n", " ", " ", "\"", "k", "\"", ":", " ",
                                      "\"", "v", "\"", "\n", "}">>
            ELSE call_result = <<"{", "\n", " ", " ", "\"", "a", "\"", ":", " ",
                                 "\"", "1", "\"", ",", "\n", " ", " ", "\"", "b", "\"",
                                 ":", " ", "\"", "2", "\"", "\n", "}">>

\* The content field is a text of white space only, text is an empty dict,
\* richText is absent and message is a dict of two entries: the content is the
\* empty string, taken from the field content.  And a bubble whose first non-empty
\* field is a dict gave its serialization.
C25_Witness ==
    /\ pc = "content called"
    /\ \/ /\ Get(call_bubble, "content", <<>>) = <<" ">>
          /\ call_bubble.dictFields = {"text", "message"}
          /\ call_result = <<>>
       \/ /\ DOMAIN call_bubble = {"message", "dictFields"}
          /\ call_bubble.dictFields = {"message"}
          /\ Len(call_result) = 26

\* ------------------------------------------------------------------ C26
\* The action lines the document has for bubble k.
RenderedActionsOf(k) ==
    LET mine == SelectSeq(md_lines, LAMBDA l : l.src = k /\ l.kind = "action")
    IN  [n \in DOMAIN mine |-> mine[n].line]

\* C26: for every bubble of the rendered thread that is not skipped as empty, the
\* document holds every action line the formatter gives for that bubble, in
\* order, whatever else the bubble has.
C26_EveryActionIsRendered ==
    pc = "rendered" =>
        \A k \in DOMAIN thread_bubbles :
            ~IsSkipped(contexts, CidA, thread_bubbles[k]) =>
                RenderedActionsOf(k)
                    = FlatMap(ActionItem, extract_intermediate_actions(thread_bubbles[k]))

\* ------------------------------------------------------------------ C27
\* The context lines the document has for bubble k.
RenderedContextOf(k) ==
    LET mine == SelectSeq(md_lines, LAMBDA l : l.src = k /\ l.kind = "context")
    IN  [n \in DOMAIN mine |-> mine[n].line]

\* C27: for every bubble of the rendered thread with git diffs, wherever it
\* stands, the document holds the block of the bubble's arrays, and the block has
\* one entry for each diff.
C27_ContextArraysAreRendered ==
    pc = "rendered" =>
        \A k \in DOMAIN thread_bubbles :
            LET diffs == Get(thread_bubbles[k], "gitDiffs", <<>>)
                block == BubbleArraysInfo(thread_bubbles[k])
                mine  == RenderedContextOf(k)
            IN  diffs # <<>> =>
                    /\ \E off \in 0..Len(mine) :
                        /\ off + Len(block) <= Len(mine)
                        /\ \A n \in DOMAIN block : mine[off + n] = block[n]
                    /\ Cardinality({n \in DOMAIN block :
                                       block[n] # <<>> /\ block[n][1] = "- "}) = Len(diffs)

\* ------------- one call of format_conversation_markdown, fields missing
\* The file lists of a thread's context: entries with a name, and entries that
\* have only a path.
FieldFiles ==
    {<<>>,
     <<[name |-> <<"a">>]>>,
     <<[path |-> <<"p">>]>>,
     <<[name |-> <<"a">>], [path |-> <<"p">>]>>}

\* The thread records: any of the fields name, createdAt, lastUpdatedAt and
\* context is present or absent, and the context has a file list or none.
FieldThreads ==
    {[f \in has |-> CASE f = "name" -> <<"t", "1">>
                      [] f = "createdAt" -> 60000
                      [] f = "lastUpdatedAt" -> 120000
                      [] f = "context" -> ctx] :
        has \in SUBSET {"name", "createdAt", "lastUpdatedAt", "context"},
        ctx \in {NoObj} \cup {[files |-> fs] : fs \in FieldFiles}}

\* The bubble lists: none, a bubble without any field, thinking records
\* without text, and a message.
FieldBubbles ==
    {<<>>,
     <<NoObj>>,
     <<[type |-> 2, thinking |-> NoObj]>>,
     <<[type |-> 2, content |-> <<"o", "k">>, thinking |-> [signature |-> <<"s">>]]>>,
     <<[type |-> 1, content |-> Hi], [thinking |-> [text |-> <<"h", "m">>]]>>}

FieldInit ==
    /\ InitRun
    /\ pc = "render"
    /\ globalDb = [exists |-> TRUE, readable |-> TRUE, kv |-> <<>>, item |-> NoBlob]
    /\ workspaceDbs = <<>>
    /\ bubbleRows = <<>>
    /\ contexts = <<>>
    /\ terminal = [commands |-> <<>>, dirs |-> <<>>]
    /\ NoMerge /\ NoExtract /\ NoName /\ NoLock
    /\ thread_record \in FieldThreads
    /\ thread_bubbles \in FieldBubbles
    /\ md_lines = <<>>
    /\ md_text = <<>>
    /\ md_again = <<>>

FieldSpec == FieldInit /\ [][RenderNext]_vars

\* ---------------------------------------------------------------- C28
\* The thread record with every missing field replaced by its default: the
\* title 'Untitled Conversation', the time 0, the creation time for the update
\* time, no file, and the empty string for the name of a file.
WithDefaults(thread_data) ==
    LET files == Get(Get(thread_data, "context", NoObj), "files", <<>>)
    IN  [name          |-> Get(thread_data, "name", <<"Untitled Conversation">>),
         createdAt     |-> Get(thread_data, "createdAt", 0),
         lastUpdatedAt |-> Get(thread_data, "lastUpdatedAt", Get(thread_data, "createdAt", 0)),
         context       |-> [files |-> [k \in DOMAIN files |->
                                          [name |-> Get(files[k], "name", <<>>)]]]]

\* C28: rendering a thread never fails because a field is absent: whatever
\* fields the thread record, its context files and its bubbles lack, the call
\* of format_conversation_markdown returns, and it returns the document of the
\* record in which every missing field has its default.
C28_MissingFieldsGetDefaults ==
    /\ pc # "raised"
    /\ pc \in {"rendered", "rendered twice"} =>
        md_text = format_conversation_markdown(WithDefaults(thread_record), CidA,
                                               thread_bubbles, contexts, 60000)

\* ---------------------------------------------------------------- C29
\* The bubbles of a thread among the message rows workspace instance k holds.
WorkspaceBubbles(k, cid) == Get(get_bubbles_batch(workspaceDbs[k].rows, {cid}), cid, <<>>)

\* The threads of the invocation whose record and messages are in workspace
\* instance k and not in the global instance.
WorkspaceHeld(k) ==
    {t \in Range(RunThreads) :
        /\ workspaceDbs[k].exists /\ workspaceDbs[k].readable
        /\ \E r \in Range(workspaceDbs[k].kv) : r.cid = t[1]
        /\ \A r \in Range(globalDb.kv) : r.cid # t[1]
        /\ FirstContent(WorkspaceBubbles(k, t[1])) # <<>>}

\* C29: a thread is exported with its messages whichever instance holds them:
\* when an invocation has completed, a thread reconstructed from a workspace
\* instance whose message rows are in that instance has a document in the
\* output directory, rendered from those messages, unless its write failed.
C29_WorkspaceMessagesAreExported ==
    pc = "done" =>
        \A k \in DOMAIN workspaceDbs :
            \A t \in WorkspaceHeld(k) :
                t[1] \notin ErrorCids =>
                    \E stem \in DOMAIN outdir, at \in Clock :
                        outdir[stem].content
                            = format_conversation_markdown(t[2], t[1], WorkspaceBubbles(k, t[1]),
                                                           contexts, at)

====
